---- MODULE Spec2Model ----
(***************************************************************************)
(* Model of the abi-node blockchain simulation engine: the Blockchain      *)
(* class (mempool, mining, transaction execution, reads), the StateStore,  *)
(* the OverrideStore, the ContractRegistry and the event-log synthesizer.  *)
(*                                                                         *)
(* Strings of the program are sequences of one-character strings, so that  *)
(* toLowerCase, startsWith, slice, padStart and the hexadecimal            *)
(* conversions are computed the way the code computes them.                *)
(***************************************************************************)
EXTENDS Integers, Sequences, FiniteSets, TLC

(***************************************************************************)
(* Bounds of the model                                                     *)
(***************************************************************************)
MaxTx == 2
MaxBlocks == 2

\* Number of requests the proxy is given in a run.
MaxProxied == 1

\* Width, in hex digits, of a hash or 32-byte word (64 in the source) and of
\* an address (40 in the source).  The strings are built the way the code
\* builds them, padded to these widths: every number of the model fits, so
\* the comparisons the code makes come out as with the full widths.
HashHexLen == 8
AddressHexLen == 4

(***************************************************************************)
(* String primitives (JavaScript String methods used by the code)          *)
(***************************************************************************)
UpperChars == <<"A","B","C","D","E","F","G","H","I","J","K","L","M",
                "N","O","P","Q","R","S","T","U","V","W","X","Y","Z">>
LowerChars == <<"a","b","c","d","e","f","g","h","i","j","k","l","m",
                "n","o","p","q","r","s","t","u","v","w","x","y","z">>

LowerChar(c) ==
    IF \E i \in 1..26 : UpperChars[i] = c
    THEN LowerChars[CHOOSE i \in 1..26 : UpperChars[i] = c]
    ELSE c

UpperChar(c) ==
    IF \E i \in 1..26 : LowerChars[i] = c
    THEN UpperChars[CHOOSE i \in 1..26 : LowerChars[i] = c]
    ELSE c

\* String.prototype.toLowerCase
toLowerCase(s) == [i \in 1..Len(s) |-> LowerChar(s[i])]

\* String.prototype.slice(k) with a 0-based start index
slice(s, k) == IF k >= Len(s) THEN <<>> ELSE SubSeq(s, k + 1, Len(s))

\* String.prototype.startsWith
startsWith(s, p) == Len(p) <= Len(s) /\ SubSeq(s, 1, Len(p)) = p

\* String.prototype.endsWith
endsWith(s, p) == Len(p) <= Len(s) /\ SubSeq(s, Len(s) - Len(p) + 1, Len(s)) = p

\* String.prototype.includes
includes(s, p) ==
    \E k \in 0..(Len(s) - Len(p)) : SubSeq(s, k + 1, k + Len(p)) = p

\* String.prototype.padStart(n, "0")
padStart(s, n) == [i \in 1..(IF Len(s) >= n THEN Len(s) ELSE n) |->
                     IF Len(s) >= n THEN s[i]
                     ELSE IF i <= n - Len(s) THEN "0" ELSE s[i - (n - Len(s))]]

HexDigits == <<"0","1","2","3","4","5","6","7","8","9","a","b","c","d","e","f">>

\* Number.prototype.toString(16) / BigInt.prototype.toString(16)
RECURSIVE toString16(_)
toString16(n) ==
    IF n < 16 THEN <<HexDigits[n + 1]>>
    ELSE Append(toString16(n \div 16), HexDigits[(n % 16) + 1])

\* BigInt("0x...") of a string of hexadecimal digits (without the 0x)
RECURSIVE hexToBigInt(_)
hexToBigInt(s) ==
    IF s = <<>> THEN 0
    ELSE 16 * hexToBigInt(SubSeq(s, 1, Len(s) - 1)) + (CHOOSE i \in 1..16 : HexDigits[i] = LowerChar(s[Len(s)])) - 1

Prefix0x(s) == <<"0", "x">> \o s

(***************************************************************************)
(* Hashes: src/unnamed/part_006 lines 21, 45-53                            *)
(***************************************************************************)
GENESIS_HASH == Prefix0x(padStart(<<>>, HashHexLen))

generateBlockHash(blockNumber) == Prefix0x(padStart(toString16(blockNumber), HashHexLen))

\* generateTxHash with the fault of ignoring the nonce: all hashes collide
generateTxHashFixed(nonce) == Prefix0x(padStart(<<"1">>, HashHexLen))

\* generateTxHash with the fault of dropping the lowest bit of the nonce
generateTxHashHalved(nonce) == Prefix0x(padStart(toString16(nonce \div 2), HashHexLen))

generateTxHash(nonce) == Prefix0x(padStart(toString16(nonce), HashHexLen))

(***************************************************************************)
(* JavaScript values handled by the engine.  t is the result of typeof.    *)
(* decodeFunctionData yields a bigint for uint256 and a string for address *)
(***************************************************************************)
BigIntV(n) == [t |-> "bigint", n |-> n, s |-> <<>>]
StringV(s) == [t |-> "string", n |-> 0, s |-> s]
BooleanV(b) == [t |-> "boolean", n |-> IF b THEN 1 ELSE 0, s |-> <<>>]

(***************************************************************************)
(* ABI descriptors (viem Abi): an ordered list of function and event items *)
(***************************************************************************)
tUint256 == <<"u","i","n","t","2","5","6">>
tAddress == <<"a","d","d","r","e","s","s">>
tBool == <<"b","o","o","l">>

Param(name, type, indexed) == [name |-> name, type |-> type, indexed |-> indexed]

AbiFunction(name, inputs, outputs) ==
    [type |-> "function", name |-> name, inputs |-> inputs, outputs |-> outputs]

AbiEvent(name, inputs) ==
    [type |-> "event", name |-> name, inputs |-> inputs, outputs |-> <<>>]

\* function names and parameter names used by the contracts of the model
nSet == <<"s","e","t">>
nGet == <<"g","e","t">>
nSetN == <<"s","e","t","N">>
nGetN == <<"g","e","t","N">>
nN == <<"n">>
nSetSettings == <<"s","e","t","S","e","t","t","i","n","g","s">>
nSettings == <<"s","e","t","t","i","n","g","s">>
nValueSet == <<"V","a","l","u","e","S","e","t">>
nNSet == <<"N","S","e","t">>
nValue == <<"v","a","l","u","e">>
nSender == <<"s","e","n","d","e","r">>
nK == <<"k">>
nV == <<"v">>
nToken == <<"T","o","k","e","n">>
nOther == <<"O","t","h","e","r">>

\* The ABI registered for the contracts of the model: the stateful contract
\* of test/blockchain.test.ts (set/get/ValueSet) extended with a keyed
\* setter (setN), its prefixed getter (getN), its bare getter (n), the
\* event NSet, and the setter setSettings with its bare getter settings.
TokenAbi == <<
    AbiFunction(nSet, <<Param(nValue, tUint256, FALSE)>>, <<>>),
    AbiFunction(nGet, <<>>, <<Param(<<>>, tUint256, FALSE)>>),
    AbiEvent(nValueSet, <<Param(nSender, tAddress, TRUE), Param(nValue, tUint256, FALSE)>>),
    AbiFunction(nSetN, <<Param(nK, tUint256, FALSE), Param(nV, tUint256, FALSE)>>, <<>>),
    AbiFunction(nGetN, <<Param(nK, tUint256, FALSE)>>, <<Param(<<>>, tUint256, FALSE)>>),
    AbiFunction(nN, <<Param(nK, tUint256, FALSE)>>, <<Param(<<>>, tUint256, FALSE)>>),
    AbiEvent(nNSet, <<Param(nK, tUint256, TRUE), Param(nV, tUint256, FALSE)>>),
    AbiFunction(nSetSettings, <<Param(nValue, tUint256, FALSE)>>, <<>>),
    AbiFunction(nSettings, <<>>, <<Param(<<>>, tUint256, FALSE)>>)
>>

\* getAbiFunction: the first function item of that name, or NoItem
NoItem == [type |-> "none", name |-> <<>>, inputs |-> <<>>, outputs |-> <<>>]

getAbiFunction(abi, name) ==
    IF \E i \in 1..Len(abi) : abi[i].type = "function" /\ abi[i].name = name
    THEN abi[CHOOSE i \in 1..Len(abi) :
               /\ abi[i].type = "function" /\ abi[i].name = name
               /\ \A j \in 1..(i - 1) : ~(abi[j].type = "function" /\ abi[j].name = name)]
    ELSE NoItem

(***************************************************************************)
(* Calldata.  The 4-byte selector is the hash of the function signature;   *)
(* it is represented by the signature it is the hash of (name and input    *)
(* types), and the argument words by the numbers they hold.                *)
(***************************************************************************)
Selector(name, types) == [name |-> name, types |-> types]

selectorOf(item) ==
    Selector(item.name, [i \in 1..Len(item.inputs) |-> item.inputs[i].type])

Calldata(name, types, words) == [selector |-> Selector(name, types), words |-> words]

\* EIP-55 checksum casing of a decoded address: a fixed casing of the hex
\* letters that differs from the lower-case form (stands for the
\* keccak-derived casing, which is a function of the address alone).
checksumAddress(hex40) == Prefix0x([i \in 1..Len(hex40) |-> UpperChar(hex40[i])])

\* decodeAbiParameters for one static word
decodeWord(type, w) ==
    IF type = tAddress THEN StringV(checksumAddress(padStart(toString16(w), AddressHexLen)))
    ELSE IF type = tBool THEN BooleanV(w # 0)
    ELSE BigIntV(w)

DecodeFailed == [ok |-> FALSE, functionName |-> <<>>, args |-> <<>>]

\* viem decodeFunctionData: throws when no function of the ABI has the
\* selector or when the data is shorter than the inputs need
decodeFunctionData(abi, data) ==
    IF \E i \in 1..Len(abi) :
          /\ abi[i].type = "function"
          /\ selectorOf(abi[i]) = data.selector
          /\ Len(data.words) >= Len(abi[i].inputs)
    THEN LET item == abi[CHOOSE i \in 1..Len(abi) :
                           abi[i].type = "function" /\ selectorOf(abi[i]) = data.selector]
         IN [ok |-> TRUE, functionName |-> item.name,
             args |-> [i \in 1..Len(item.inputs) |->
                          decodeWord(item.inputs[i].type, data.words[i])]]
    ELSE DecodeFailed

\* one 32-byte word of encodeAbiParameters, as 64 hex digits
encodeWord(type, v) ==
    IF type = tAddress THEN padStart(toLowerCase(slice(v.s, 2)), HashHexLen)
    ELSE padStart(toString16(v.n), HashHexLen)

\* whether viem accepts the JavaScript value for the ABI type
encodable(type, v) ==
    IF type = tAddress THEN v.t = "string" /\ Len(v.s) = AddressHexLen + 2
    ELSE IF type = tBool THEN v.t = "boolean"
    ELSE v.t = "bigint"

RECURSIVE concatWords(_, _, _)
concatWords(params, values, i) ==
    IF i > Len(params) THEN <<>>
    ELSE encodeWord(params[i].type, values[i]) \o concatWords(params, values, i + 1)

EncodeFailed == [ok |-> FALSE, hex |-> <<>>]

\* viem encodeAbiParameters: throws on a length mismatch or a value that
\* does not fit its type; otherwise "0x" followed by one word per value
encodeAbiParameters(params, values) ==
    IF Len(params) # Len(values) THEN EncodeFailed
    ELSE IF \E i \in 1..Len(params) : ~encodable(params[i].type, values[i]) THEN EncodeFailed
    ELSE [ok |-> TRUE, hex |-> Prefix0x(concatWords(params, values, 1))]

(***************************************************************************)
(* Default values (abi/defaults.ts)                                        *)
(***************************************************************************)
DEAD_ADDRESS ==
    Prefix0x(padStart(<<>>, AddressHexLen - 4) \o <<"d","E","a","D">>)

generateDefaultValue(param) ==
    IF param.type = tAddress THEN StringV(DEAD_ADDRESS)
    ELSE IF param.type = tBool THEN BooleanV(TRUE)
    ELSE BigIntV(1)

generateDefaultValues(outputs) ==
    [i \in 1..Len(outputs) |-> generateDefaultValue(outputs[i])]

(***************************************************************************)
(* Contract registry (src/abi/registry.ts).  The JavaScript Map keeps      *)
(* insertion order, which all() exposes: the registry is the sequence of   *)
(* its entries.                                                            *)
(***************************************************************************)
ContractEntry(address, name, abi) == [address |-> address, name |-> name, abi |-> abi]

NoContract == [address |-> <<>>, name |-> <<>>, abi |-> <<>>]

\* ContractRegistry.register: Map.set under the lower-cased address
register(reg, address, name, abi) ==
    LET normalized == toLowerCase(address)
        entry == ContractEntry(normalized, name, abi)
    IN IF \E i \in 1..Len(reg) : reg[i].address = normalized
       THEN [i \in 1..Len(reg) |-> IF reg[i].address = normalized THEN entry ELSE reg[i]]
       ELSE Append(reg, entry)

\* ContractRegistry.get: undefined is NoContract
registryGet(reg, address) ==
    IF \E i \in 1..Len(reg) : reg[i].address = toLowerCase(address)
    THEN reg[CHOOSE i \in 1..Len(reg) : reg[i].address = toLowerCase(address)]
    ELSE NoContract

isRegistered(reg, address) == registryGet(reg, address) # NoContract

generateAddress(index) == Prefix0x(padStart(toString16(index + 1), AddressHexLen))

\* first loop of populateRegistry: the config's address -> path entries
\* whose ABI file loaded
RECURSIVE registerConfigContracts(_, _, _)
registerConfigContracts(reg, configContracts, i) ==
    IF i > Len(configContracts) THEN reg
    ELSE registerConfigContracts(
            IF configContracts[i].loaded
            THEN register(reg, configContracts[i].address,
                          configContracts[i].name, configContracts[i].abi)
            ELSE reg,
            configContracts, i + 1)

\* second loop of populateRegistry: ABI files not yet registered by name
\* get generateAddress(number of entries)
RECURSIVE registerAbiFiles(_, _, _)
registerAbiFiles(reg, abiFiles, i) ==
    IF i > Len(abiFiles) THEN reg
    ELSE registerAbiFiles(
            IF \E j \in 1..Len(reg) : reg[j].name = abiFiles[i].name
            THEN reg
            ELSE register(reg, generateAddress(Len(reg)), abiFiles[i].name, abiFiles[i].abi),
            abiFiles, i + 1)

populateRegistry(reg, abiFiles, configContracts) ==
    registerAbiFiles(registerConfigContracts(reg, configContracts, 1), abiFiles, 1)

(***************************************************************************)
(* State store (StateStore of src/unnamed/part_006, lines 539-603)         *)
(***************************************************************************)
n_default == <<"_","d","e","f","a","u","l","t">>

\* normalizeFnName with the fault of lower-casing all of the remainder
normalizeFnNameLowerCase(fn) ==
    IF fn = nSet \/ fn = nGet THEN n_default
    ELSE IF (startsWith(fn, nSet) \/ startsWith(fn, nGet)) /\ Len(fn) > 3
         THEN toLowerCase(slice(fn, 3))
    ELSE fn

normalizeFnName(fn) ==
    IF fn = nSet \/ fn = nGet THEN n_default
    ELSE IF startsWith(fn, nSet) /\ Len(fn) > 3
         THEN <<LowerChar(fn[4])>> \o slice(fn, 4)
    ELSE IF startsWith(fn, nGet) /\ Len(fn) > 3
         THEN <<LowerChar(fn[4])>> \o slice(fn, 4)
    ELSE fn

\* BigInt.prototype.toString() (decimal)
DecDigits == <<"0","1","2","3","4","5","6","7","8","9">>

RECURSIVE toString10(_)
toString10(n) ==
    IF n < 10 THEN <<DecDigits[n + 1]>>
    ELSE Append(toString10(n \div 10), DecDigits[(n % 10) + 1])

\* Array.prototype.join(",")
RECURSIVE joinComma(_, _)
joinComma(parts, i) ==
    IF i > Len(parts) THEN <<>>
    ELSE (IF i > 1 THEN <<",">> ELSE <<>>) \o parts[i] \o joinComma(parts, i + 1)

\* BigInt.prototype.toJSON as src/server.ts (lines 48-51) installs it when
\* the server module is loaded
BigIntToJSON(n) == toString10(n)

\* JSON.stringify of one array element: a bigint is replaced by the string
\* its toJSON returns, and that string is serialized
jsonElement(v) ==
    IF v.t = "string" THEN <<"\"">> \o v.s \o <<"\"">>
    ELSE IF v.t = "bigint" THEN <<"\"">> \o BigIntToJSON(v.n) \o <<"\"">>
    ELSE IF v.n = 1 THEN <<"t","r","u","e">> ELSE <<"f","a","l","s","e">>

\* JSON.stringify(keyArgs)
JSONstringify(args) ==
    <<"[">> \o joinComma([i \in 1..Len(args) |-> jsonElement(args[i])], 1) \o <<"]">>

\* makeKey with the fault of leaving the contract out of the key
makeKeyShared(contract, fn, keyArgs) ==
    normalizeFnName(fn) \o <<":">> \o JSONstringify(keyArgs)

\* StateStore.makeKey
makeKey(contract, fn, keyArgs) ==
    toLowerCase(contract) \o <<":">> \o normalizeFnName(fn) \o <<":">> \o JSONstringify(keyArgs)

\* StateStore.set with the fault of keeping the value a key already has
storeSetOnce(store, contract, fn, keyArgs, values) ==
    IF makeKey(contract, fn, keyArgs) \in DOMAIN store THEN store
    ELSE [x \in DOMAIN store \cup {makeKey(contract, fn, keyArgs)} |->
             IF x = makeKey(contract, fn, keyArgs) THEN values ELSE store[x]]

\* StateStore.set: the store after the call
storeSet(store, contract, fn, keyArgs, values) ==
    LET key == makeKey(contract, fn, keyArgs)
    IN [x \in DOMAIN store \cup {key} |-> IF x = key THEN values ELSE store[x]]

\* StateStore.get: found is FALSE for undefined
storeGet(store, contract, fn, keyArgs) ==
    LET key == makeKey(contract, fn, keyArgs)
    IN [found |-> key \in DOMAIN store,
        values |-> IF key \in DOMAIN store THEN store[key] ELSE <<>>]

(***************************************************************************)
(* Event log synthesizer (src/abi/events.ts)                               *)
(***************************************************************************)
\* keccak256(toHex(text)): an injective function whose values are no
\* padded hex number
keccak256(text) == <<"k","e","c","c","a","k","(">> \o text \o <<")">>

\* indices of the ABI's events that findMatchingEvents keeps, in ABI order
eventMatches(item, functionName) ==
    LET normalizedFn == toLowerCase(functionName)
        eventName == toLowerCase(item.name)
        baseName == slice(normalizedFn, 3)
    IN /\ item.type = "event"
       /\ \/ eventName = normalizedFn
          \/ endsWith(eventName, normalizedFn)
          \/ includes(eventName, normalizedFn)
          \/ /\ startsWith(normalizedFn, nSet) /\ Len(normalizedFn) > 3
             /\ \/ eventName = baseName
                \/ eventName = baseName \o <<"s","e","t">>
                \/ eventName = baseName \o <<"u","p","d","a","t","e","d">>
                \/ eventName = baseName \o <<"c","h","a","n","g","e","d">>

RECURSIVE filterEvents(_, _, _)
filterEvents(abi, functionName, i) ==
    IF i > Len(abi) THEN <<>>
    ELSE (IF eventMatches(abi[i], functionName) THEN <<abi[i]>> ELSE <<>>)
         \o filterEvents(abi, functionName, i + 1)

\* findMatchingEvents with the fault of keeping the first match only (find
\* for filter)
findMatchingEventsFirst(abi, functionName) ==
    IF filterEvents(abi, functionName, 1) = <<>> THEN <<>>
    ELSE <<filterEvents(abi, functionName, 1)[1]>>

findMatchingEvents(abi, functionName) == filterEvents(abi, functionName, 1)

\* argMap of generateEventLog: lower-cased input name -> argument; a later
\* input of the same name replaces an earlier one
argMapHas(functionArgs, functionInputNames, key) ==
    \E i \in 1..Len(functionInputNames) :
        i <= Len(functionArgs) /\ toLowerCase(functionInputNames[i]) = key

argMapGet(functionArgs, functionInputNames, key) ==
    functionArgs[CHOOSE i \in 1..Len(functionInputNames) :
        /\ i <= Len(functionArgs) /\ toLowerCase(functionInputNames[i]) = key
        /\ \A j \in (i + 1)..Len(functionInputNames) :
              ~(j <= Len(functionArgs) /\ toLowerCase(functionInputNames[j]) = key)]

\* a ?? b ?? c over the argMap: the first of the keys that is present
firstPresent(functionArgs, functionInputNames, keys) ==
    LET present == {k \in 1..Len(keys) : argMapHas(functionArgs, functionInputNames, keys[k])}
    IN IF present = {} THEN [found |-> FALSE, value |-> BigIntV(0)]
       ELSE [found |-> TRUE,
             value |-> argMapGet(functionArgs, functionInputNames,
                                 keys[CHOOSE k \in present : \A m \in present : k <= m])]

\* eventInputValue with the fault of looking for an argument of the same
\* name before the sender
eventInputValueArgumentFirst(input, txFrom, functionArgs, functionInputNames) ==
    IF input.name # <<>> /\ argMapHas(functionArgs, functionInputNames, toLowerCase(input.name))
    THEN argMapGet(functionArgs, functionInputNames, toLowerCase(input.name))
    ELSE IF toLowerCase(input.name) \in {<<"f","r","o","m">>, nSender} THEN StringV(txFrom)
    ELSE generateDefaultValue(input)

\* the value generateEventLog chooses for one event input
eventInputValue(input, txFrom, functionArgs, functionInputNames) ==
    LET inputName == toLowerCase(input.name)
        toValue == firstPresent(functionArgs, functionInputNames, <<<<"t","o">>, <<"r","e","c","i","p","i","e","n","t">>, <<"d","s","t">>>>)
        amountValue == firstPresent(functionArgs, functionInputNames, <<<<"a","m","o","u","n","t">>, nValue, <<"w","a","d">>>>)
    IN IF inputName = <<"f","r","o","m">> \/ inputName = nSender THEN StringV(txFrom)
       ELSE IF inputName # <<>> /\ argMapHas(functionArgs, functionInputNames, inputName)
            THEN argMapGet(functionArgs, functionInputNames, inputName)
       ELSE IF inputName = <<"t","o">> /\ toValue.found THEN toValue.value
       ELSE IF (inputName = <<"a","m","o","u","n","t">> \/ inputName = nValue) /\ amountValue.found
            THEN amountValue.value
       ELSE generateDefaultValue(input)

\* the topic of one indexed value
indexedTopic(value) ==
    IF value.t = "string" /\ startsWith(value.s, <<"0","x">>)
    THEN Prefix0x(padStart(slice(value.s, 2), HashHexLen))
    ELSE IF value.t = "bigint" THEN Prefix0x(padStart(toString16(value.n), HashHexLen))
    ELSE IF value.t = "boolean"
         THEN Prefix0x(padStart(IF value.n = 1 THEN <<"1">> ELSE <<"0">>, HashHexLen))
    ELSE keccak256(value.s)

RECURSIVE selectSeq(_, _, _)
selectSeq(inputs, values, indexed) ==
    IF inputs = <<>> THEN <<>>
    ELSE (IF inputs[1].indexed = indexed THEN <<values[1]>> ELSE <<>>)
         \o selectSeq(Tail(inputs), Tail(values), indexed)

generateEventLog(event, contractAddress, txFrom, functionArgs, functionInputNames) ==
    LET inputs == event.inputs
        allValues == [i \in 1..Len(inputs) |->
                        eventInputValue(inputs[i], txFrom, functionArgs, functionInputNames)]
        eventSignature == event.name \o <<"(">> \o joinComma([i \in 1..Len(inputs) |-> inputs[i].type], 1) \o <<")">>
        indexedValues == selectSeq(inputs, allValues, TRUE)
        nonIndexedInputs == selectSeq(inputs, inputs, FALSE)
        nonIndexedValues == selectSeq(inputs, allValues, FALSE)
        encoded == encodeAbiParameters(nonIndexedInputs, nonIndexedValues)
    IN [topics |-> <<keccak256(eventSignature)>>
                   \o [i \in 1..Len(indexedValues) |-> indexedTopic(indexedValues[i])],
        data |-> IF Len(nonIndexedInputs) > 0 /\ encoded.ok THEN encoded.hex
                 ELSE <<"0","x">>]

(***************************************************************************)
(* Override store (src/state/overrides.ts)                                 *)
(***************************************************************************)
\* A raw config entry "Target.functionName" or "Target.functionName(args)"
\* with its value; argsString is <<>> when the key has no argument list.
RawOverride(target, functionName, argsString, value) ==
    [target |-> target, functionName |-> functionName,
     argsString |-> argsString, value |-> value]

\* raw values: a bare string, {value}, {values} or {revert}
RawString(v) == [form |-> "string", value |-> v, values |-> <<>>, revert |-> <<>>]
RawValues(vs) == [form |-> "values", value |-> <<>>, values |-> vs, revert |-> <<>>]
RawRevert(r) == [form |-> "revert", value |-> <<>>, values |-> <<>>, revert |-> r]

ResolvedOverride(type, hasValue, value, values, revertReason) ==
    [type |-> type, hasValue |-> hasValue, value |-> value,
     values |-> values, revertReason |-> revertReason]

NoOverride == ResolvedOverride("none", FALSE, <<>>, <<>>, <<>>)

\* OverrideStore.parseOverrideValue (lines 113-134)
resolveOverrideValue(raw) ==
    IF raw.form = "string" THEN ResolvedOverride("value", TRUE, raw.value, <<>>, <<>>)
    ELSE IF raw.form = "revert" THEN ResolvedOverride("revert", FALSE, <<>>, <<>>, raw.revert)
    ELSE ResolvedOverride("value", FALSE, <<>>, raw.values, <<>>)

\* String.prototype.trim for blanks
RECURSIVE trim(_)
trim(s) ==
    IF s = <<>> THEN s
    ELSE IF s[1] = " " THEN trim(Tail(s))
    ELSE IF s[Len(s)] = " " THEN trim(SubSeq(s, 1, Len(s) - 1))
    ELSE s

\* String.prototype.split(","): the pieces between the commas
RECURSIVE splitComma(_, _)
splitComma(s, acc) ==
    IF s = <<>> THEN <<acc>>
    ELSE IF s[1] = "," THEN <<acc>> \o splitComma(Tail(s), <<>>)
    ELSE splitComma(Tail(s), Append(acc, s[1]))

\* OverrideStore.normalizeArgs
normalizeArgs(argsString) ==
    LET parts == splitComma(argsString, <<>>)
        norm == [i \in 1..Len(parts) |->
                    IF startsWith(trim(parts[i]), <<"0","x">>)
                    THEN toLowerCase(trim(parts[i])) ELSE trim(parts[i])]
    IN joinComma(norm, 1)

\* OverrideStore.argsToString
argsToString(args) ==
    joinComma([i \in 1..Len(args) |->
                  IF args[i].t = "bigint" THEN toString10(args[i].n)
                  ELSE IF args[i].t = "string" /\ startsWith(args[i].s, <<"0","x">>)
                       THEN toLowerCase(args[i].s)
                  ELSE IF args[i].t = "boolean"
                       THEN (IF args[i].n = 1 THEN <<"t","r","u","e">>
                             ELSE <<"f","a","l","s","e">>)
                  ELSE args[i].s], 1)

genericKey(addr, functionName) == toLowerCase(addr) \o <<":">> \o functionName

argKey(addr, functionName, argsString) ==
    toLowerCase(addr) \o <<":">> \o functionName \o <<"(">> \o argsString \o <<")">>

\* addresses a target stands for: itself when it starts with 0x, else every
\* registered address whose contract name equals it ignoring case
targetAddresses(target, reg) ==
    IF startsWith(target, <<"0","x">>) THEN {toLowerCase(target)}
    ELSE {reg[i].address : i \in {j \in 1..Len(reg) :
                                     toLowerCase(reg[j].name) = toLowerCase(target)}}

mapSet(m, k, v) == [x \in DOMAIN m \cup {k} |-> IF x = k THEN v ELSE m[x]]

EmptyMap == [x \in {} |-> NoOverride]

NoOverrideStore == [defined |-> FALSE, overrides |-> EmptyMap, argOverrides |-> EmptyMap]

RECURSIVE setAll(_, _, _)
setAll(m, keys, v) ==
    IF keys = {} THEN m
    ELSE LET k == CHOOSE x \in keys : TRUE
         IN setAll(mapSet(m, k, v), keys \ {k}, v)

\* OverrideStore constructor (lines 23-73): entries are processed in order
RECURSIVE buildOverrides(_, _, _, _)
buildOverrides(store, rawOverrides, reg, i) ==
    IF i > Len(rawOverrides) THEN store
    ELSE LET e == rawOverrides[i]
             resolved == resolveOverrideValue(e.value)
             addresses == targetAddresses(e.target, reg)
             next ==
                IF e.target = <<>> \/ e.functionName = <<>> THEN store
                ELSE IF e.argsString # <<>>
                THEN [store EXCEPT !.argOverrides =
                        setAll(@, {argKey(a, e.functionName, normalizeArgs(e.argsString)) :
                                     a \in addresses}, resolved)]
                ELSE [store EXCEPT !.overrides =
                        setAll(@, {genericKey(a, e.functionName) : a \in addresses}, resolved)]
         IN buildOverrides(next, rawOverrides, reg, i + 1)

OverrideStore(rawOverrides, reg) ==
    buildOverrides([defined |-> TRUE, overrides |-> EmptyMap, argOverrides |-> EmptyMap],
                   rawOverrides, reg, 1)

\* get with the fault of looking for the generic entry first
overrideGetGenericFirst(store, address, functionName, hasArgs, args) ==
    IF genericKey(address, functionName) \in DOMAIN store.overrides
    THEN store.overrides[genericKey(address, functionName)]
    ELSE IF /\ hasArgs /\ Len(args) > 0
            /\ argKey(address, functionName, argsToString(args)) \in DOMAIN store.argOverrides
    THEN store.argOverrides[argKey(address, functionName, argsToString(args))]
    ELSE NoOverride

\* OverrideStore.get (lines 140-156); hasArgs is FALSE when the caller
\* passes no args parameter
overrideGet(store, address, functionName, hasArgs, args) ==
    LET ak == argKey(address, functionName, argsToString(args))
        gk == genericKey(address, functionName)
    IN IF hasArgs /\ Len(args) > 0 /\ ak \in DOMAIN store.argOverrides
       THEN store.argOverrides[ak]
       ELSE IF gk \in DOMAIN store.overrides THEN store.overrides[gk]
       ELSE NoOverride

\* OverrideStore.has (lines 161-176)
overrideHas(store, address, functionName, hasArgs, args) ==
    LET ak == argKey(address, functionName, argsToString(args))
        gk == genericKey(address, functionName)
    IN \/ hasArgs /\ Len(args) > 0 /\ ak \in DOMAIN store.argOverrides
       \/ gk \in DOMAIN store.overrides

\* BigInt(text) for a decimal literal: ok is FALSE for a SyntaxError
RECURSIVE decimalValue(_)
decimalValue(s) ==
    IF s = <<>> THEN 0
    ELSE 10 * decimalValue(SubSeq(s, 1, Len(s) - 1))
         + ((CHOOSE i \in 1..10 : DecDigits[i] = s[Len(s)]) - 1)

parseBigInt(text) ==
    IF \A i \in 1..Len(text) : \E d \in 1..10 : DecDigits[d] = text[i]
    THEN [ok |-> TRUE, n |-> decimalValue(text)]
    ELSE IF /\ startsWith(text, <<"0","x">>) /\ Len(text) > 2
            /\ \A i \in 3..Len(text) : \E d \in 1..16 : HexDigits[d] = LowerChar(text[i])
    THEN [ok |-> TRUE, n |-> hexToBigInt(slice(text, 2))]
    ELSE [ok |-> FALSE, n |-> 0]

(***************************************************************************)
(* Blockchain engine (Blockchain of src/unnamed/part_006, lines 62-530)    *)
(***************************************************************************)
VARIABLES
    registry,        \* ContractRegistry shared with the engine
    overrides,       \* Blockchain.overrides (NoOverrideStore for undefined)
    blockTime,       \* Blockchain.blockTime, 0 is instant mining
    blocks,          \* Blockchain.blocks, blocks[i] is block number i - 1
    mempool,         \* Blockchain.mempool, the pending transactions in order
    state,           \* StateStore.state: key -> stored values
    txNonce,         \* Blockchain.txNonce
    miningInterval,  \* TRUE while the setInterval timer is armed
    receipts,        \* Blockchain.receipts: transaction hash -> receipt
    sent,            \* outcome of the most recent sendTransaction call
    read,            \* the most recent read operation and what it gave back
    proxy            \* HandlerOptions.proxy and the requests forwarded to it

vars == <<registry, overrides, blockTime, blocks, mempool, state, txNonce,
          miningInterval, receipts, sent, read, proxy>>

Transaction(hash, from, to, data, nonce, decoded, contractName) ==
    [hash |-> hash, from |-> from, to |-> to, data |-> data, value |-> 0,
     nonce |-> nonce, contractName |-> contractName,
     functionName |-> decoded.functionName, args |-> decoded.args]

Block(number, hash, parentHash, transactions, blockReceipts) ==
    [number |-> number, hash |-> hash, parentHash |-> parentHash,
     transactions |-> transactions, receipts |-> blockReceipts]

GenesisBlock == Block(0, GENESIS_HASH, GENESIS_HASH, <<>>, <<>>)

latestBlock == blocks[Len(blocks)]

blockNumber == latestBlock.number

isKnownContract(address) == isRegistered(registry, address)

GasPerTx == 21000

\* lines 307-327: one log per matching event, logIndex is the position in
\* the transaction's own list
RECURSIVE buildLogs(_, _, _, _, _, _, _, _)
buildLogs(matchingEvents, i, tx, args, functionInputNames, number, blockHash, txIndex) ==
    IF i > Len(matchingEvents) THEN <<>>
    ELSE LET gen == generateEventLog(matchingEvents[i], tx.to, tx.from, args,
                                     functionInputNames)
         IN <<[address |-> tx.to, topics |-> gen.topics, data |-> gen.data,
               blockNumber |-> number, blockHash |-> blockHash,
               transactionHash |-> tx.hash, transactionIndex |-> txIndex,
               logIndex |-> i - 1]>>
            \o buildLogs(matchingEvents, i + 1, tx, args, functionInputNames,
                         number, blockHash, txIndex)

\* writeState with the fault of writing a second entry, keyed by all the
\* arguments of the call
writeStateTwice(store, tx, functionName, args) ==
    IF Len(args) = 0 THEN store
    ELSE storeSet(storeSet(store, tx.to, functionName, args, <<BigIntV(0)>>),
                  tx.to, functionName, SubSeq(args, 1, Len(args) - 1),
                  SubSeq(args, Len(args), Len(args)))

\* lines 281-294: the store after the write of a decoded call
writeState(store, tx, functionName, args) ==
    IF Len(args) = 0 THEN store
    ELSE IF Len(args) = 1 THEN storeSet(store, tx.to, functionName, <<>>, args)
    ELSE storeSet(store, tx.to, functionName,
                  SubSeq(args, 1, Len(args) - 1), <<args[Len(args)]>>)

\* emitLogs with the fault of giving every log the transaction index 0
emitLogsFirstIndex(abi, abiFunc, tx, decoded, number, blockHash, txIndex) ==
    buildLogs(findMatchingEvents(abi, decoded.functionName), 1, tx, decoded.args,
              [i \in 1..Len(abiFunc.inputs) |-> abiFunc.inputs[i].name],
              number, blockHash, 0)

\* lines 296-327: the logs of a decoded call
emitLogs(abi, abiFunc, tx, decoded, number, blockHash, txIndex) ==
    buildLogs(findMatchingEvents(abi, decoded.functionName), 1, tx, decoded.args,
              [i \in 1..Len(abiFunc.inputs) |-> abiFunc.inputs[i].name],
              number, blockHash, txIndex)

\* executeDecoded with the fault of writing an entry for a call that did
\* not decode
executeDecodedUnguarded(contract, decoded, store, tx, number, blockHash, txIndex) ==
    [store |-> storeSet(store, tx.to, decoded.functionName, <<>>, <<BigIntV(0)>>),
     logs |-> <<>>]

\* the try block of executeTransaction once the calldata is decoded
executeDecoded(contract, decoded, store, tx, number, blockHash, txIndex) ==
    IF ~decoded.ok THEN [store |-> store, logs |-> <<>>]
    ELSE [store |-> writeState(store, tx, decoded.functionName, decoded.args),
          logs |-> emitLogs(contract.abi, getAbiFunction(contract.abi, decoded.functionName),
                            tx, decoded, number, blockHash, txIndex)]

\* executeOn with the fault of executing what sendTransaction decoded when
\* the target is not registered any more
executeOnAsSubmitted(contract, store, tx, number, blockHash, txIndex) ==
    IF contract = NoContract
    THEN [store |-> IF tx.functionName = <<>> THEN store
                    ELSE writeState(store, tx, tx.functionName, tx.args),
          logs |-> <<>>]
    ELSE executeDecoded(contract, decodeFunctionData(contract.abi, tx.data), store, tx,
                        number, blockHash, txIndex)

\* the body of executeTransaction for the registry's entry of tx.to
executeOn(contract, store, tx, number, blockHash, txIndex) ==
    IF contract = NoContract THEN [store |-> store, logs |-> <<>>]
    ELSE executeDecoded(contract, decodeFunctionData(contract.abi, tx.data), store, tx,
                        number, blockHash, txIndex)

\* Blockchain.executeTransaction: the store after the call and the logs.
\* Any exception inside the try block ends the call with no logs.
executeTransaction(reg, store, tx, number, blockHash, txIndex) ==
    executeOn(registryGet(reg, tx.to), store, tx, number, blockHash, txIndex)

\* Receipt with the fault of recording the parent block's number
ReceiptParentNumber(tx, i, number, blockHash, logs) ==
    [transactionHash |-> tx.hash, transactionIndex |-> i, blockNumber |-> number - 1,
     blockHash |-> blockHash, from |-> tx.from, to |-> tx.to, gasUsed |-> GasPerTx,
     cumulativeGasUsed |-> GasPerTx * (i + 1), status |-> "0x1", logs |-> logs]

\* Receipt with the fault of reporting a transaction without logs as failed
ReceiptFailedWithoutLogs(tx, i, number, blockHash, logs) ==
    [transactionHash |-> tx.hash, transactionIndex |-> i, blockNumber |-> number,
     blockHash |-> blockHash, from |-> tx.from, to |-> tx.to, gasUsed |-> GasPerTx,
     cumulativeGasUsed |-> GasPerTx * (i + 1),
     status |-> IF logs = <<>> THEN "0x0" ELSE "0x1", logs |-> logs]

Receipt(tx, i, number, blockHash, logs) ==
    [transactionHash |-> tx.hash, transactionIndex |-> i, blockNumber |-> number,
     blockHash |-> blockHash, from |-> tx.from, to |-> tx.to, gasUsed |-> GasPerTx,
     cumulativeGasUsed |-> GasPerTx * (i + 1), status |-> "0x1", logs |-> logs]

\* lines 240-241: blockReceipts.push(receipt); receipts.set(tx.hash, receipt)
pushReceipt(acc, store, receipt) ==
    [store |-> store,
     receipts |-> [h \in DOMAIN acc.receipts \cup {receipt.transactionHash} |->
                      IF h = receipt.transactionHash THEN receipt ELSE acc.receipts[h]],
     blockReceipts |-> Append(acc.blockReceipts, receipt)]

\* one iteration of the loop of mineBlock, given what executeTransaction did
mineStep(acc, ex, tx, i, number, blockHash) ==
    pushReceipt(acc, ex.store, Receipt(tx, i, number, blockHash, ex.logs))

\* the loop of mineBlock (lines 218-242) from 0-based index i on; acc holds
\* the store, the receipts map and the block's receipts so far
RECURSIVE mineLoop(_, _, _, _, _, _)
mineLoop(reg, pending, i, acc, number, blockHash) ==
    IF i >= Len(pending) THEN acc
    ELSE mineLoop(reg, pending, i + 1,
                  mineStep(acc,
                           executeTransaction(reg, acc.store, pending[i + 1],
                                              number, blockHash, i),
                           pending[i + 1], i, number, blockHash),
                  number, blockHash)

\* lines 244-254: the block is assembled and pushed on the ledger
sealBlock(ledger, transactions, rest, done, number, blockHash, parentHash) ==
    [blocks |-> Append(ledger, Block(number, blockHash, parentHash,
                                     transactions, done.blockReceipts)),
     mempool |-> rest,
     state |-> done.store,
     receipts |-> done.receipts]

\* lines 206-208: the number and the hash of the block to mine
nextBlockNumber(ledger) == ledger[Len(ledger)].number + 1

\* mineBlock with the fault of linking the new block to its own hash
mineBlockSelfParent(reg, ledger, pool, store, rmap) ==
    sealBlock(ledger, pool, <<>>,
              mineLoop(reg, pool, 0,
                       [store |-> store, receipts |-> rmap, blockReceipts |-> <<>>],
                       nextBlockNumber(ledger), generateBlockHash(nextBlockNumber(ledger))),
              nextBlockNumber(ledger), generateBlockHash(nextBlockNumber(ledger)),
              generateBlockHash(nextBlockNumber(ledger)))

\* the transactions a mining round that takes at most one would take
firstPending(pool) == IF pool = <<>> THEN <<>> ELSE <<Head(pool)>>

\* mineBlock with the fault of taking one pending transaction per block
mineBlockFirstOnly(reg, ledger, pool, store, rmap) ==
    sealBlock(ledger, firstPending(pool), IF pool = <<>> THEN <<>> ELSE Tail(pool),
              mineLoop(reg, firstPending(pool), 0,
                       [store |-> store, receipts |-> rmap, blockReceipts |-> <<>>],
                       nextBlockNumber(ledger), generateBlockHash(nextBlockNumber(ledger))),
              nextBlockNumber(ledger), generateBlockHash(nextBlockNumber(ledger)),
              ledger[Len(ledger)].hash)

\* mineBlock with the fault of mining nothing when nothing is pending
mineBlockSkipEmpty(reg, ledger, pool, store, rmap) ==
    IF pool = <<>>
    THEN [blocks |-> ledger, mempool |-> pool, state |-> store, receipts |-> rmap]
    ELSE sealBlock(ledger, pool, <<>>,
                   mineLoop(reg, pool, 0,
                            [store |-> store, receipts |-> rmap, blockReceipts |-> <<>>],
                            nextBlockNumber(ledger),
                            generateBlockHash(nextBlockNumber(ledger))),
                   nextBlockNumber(ledger), generateBlockHash(nextBlockNumber(ledger)),
                   ledger[Len(ledger)].hash)

\* mineBlock with the fault of copying the pending transactions (slice)
\* where the code takes them out of the mempool (splice)
mineBlockCopying(reg, ledger, pool, store, rmap) ==
    sealBlock(ledger, pool, pool,
              mineLoop(reg, pool, 0,
                       [store |-> store, receipts |-> rmap, blockReceipts |-> <<>>],
                       nextBlockNumber(ledger), generateBlockHash(nextBlockNumber(ledger))),
              nextBlockNumber(ledger), generateBlockHash(nextBlockNumber(ledger)),
              ledger[Len(ledger)].hash)

\* Blockchain.mineBlock applied to a ledger, mempool, store and receipts map
mineBlock(reg, ledger, pool, store, rmap) ==
    sealBlock(ledger, pool, <<>>,
              mineLoop(reg, pool, 0,
                       [store |-> store, receipts |-> rmap, blockReceipts |-> <<>>],
                       nextBlockNumber(ledger), generateBlockHash(nextBlockNumber(ledger))),
              nextBlockNumber(ledger), generateBlockHash(nextBlockNumber(ledger)),
              ledger[Len(ledger)].hash)

(***************************************************************************)
(* Reads                                                                   *)
(***************************************************************************)
\* String.prototype.padEnd(n, "0")
padEnd(s, n) == [i \in 1..(IF Len(s) >= n THEN Len(s) ELSE n) |->
                    IF i <= Len(s) THEN s[i] ELSE "0"]

ZeroWord == padStart(<<>>, HashHexLen)

\* ABI encoding of a short string: offset 0x20, length, padded bytes
encodedString(len, bytesHex) ==
    Prefix0x(padStart(<<"2","0">>, HashHexLen) \o padStart(toString16(len), HashHexLen)
             \o padEnd(bytesHex, HashHexLen))

\* SELECTOR_FALLBACKS (lines 26-43), keyed by the signature each selector
\* is the hash of
SELECTOR_FALLBACKS == <<
    [selector |-> Selector(<<"s","u","p","p","o","r","t","s","I","n","t","e","r","f","a","c","e">>, <<<<"b","y","t","e","s","4">>>>), result |-> Prefix0x(ZeroWord)],
    [selector |-> Selector(<<"n","a","m","e">>, <<>>), result |-> encodedString(4, <<"4","d","6","f","6","3","6","b">>)],
    [selector |-> Selector(<<"s","y","m","b","o","l">>, <<>>), result |-> encodedString(4, <<"4","d","4","f","4","3","4","b">>)],
    [selector |-> Selector(<<"d","e","c","i","m","a","l","s">>, <<>>), result |-> Prefix0x(padStart(<<"1","2">>, HashHexLen))],
    [selector |-> Selector(<<"t","o","t","a","l","S","u","p","p","l","y">>, <<>>),
     result |-> Prefix0x(padStart(<<"d","3","c","2","1","b","c","e","c","c","e","d",
                                    "a","1","0","0","0","0","0","0">>, HashHexLen))],
    [selector |-> Selector(<<"b","a","l","a","n","c","e","O","f">>, <<tAddress>>), result |-> Prefix0x(ZeroWord)],
    [selector |-> Selector(<<"a","l","l","o","w","a","n","c","e">>, <<tAddress, tAddress>>), result |-> Prefix0x(ZeroWord)],
    [selector |-> Selector(<<"o","w","n","e","r","O","f">>, <<tUint256>>), result |-> Prefix0x(ZeroWord)]
>>

Returned(hex) == [status |-> "ok", result |-> hex, reason |-> <<>>]
Thrown(error, reason) == [status |-> error, result |-> <<>>, reason |-> reason]

\* Blockchain.parseOverrideValue (lines 427-444)
parseOverrideValue(type, value) ==
    IF startsWith(type, <<"u","i","n","t">>) \/ startsWith(type, <<"i","n","t">>)
    THEN [ok |-> parseBigInt(value).ok, v |-> BigIntV(parseBigInt(value).n)]
    ELSE IF type = tBool
    THEN [ok |-> TRUE, v |-> BooleanV(value = <<"t","r","u","e">> \/ value = <<"1">>)]
    ELSE IF startsWith(type, <<"b","y","t","e","s">>)
    THEN [ok |-> TRUE, v |-> StringV(IF startsWith(value, <<"0","x">>) THEN value
                                     ELSE Prefix0x(value))]
    ELSE [ok |-> TRUE, v |-> StringV(value)]

\* Blockchain.applyOverride (lines 386-422)
applyOverride(override, abiFunc) ==
    LET outputs == abiFunc.outputs
        multi == [i \in 1..Len(outputs) |->
                    parseOverrideValue(outputs[i].type,
                        IF i <= Len(override.values) THEN override.values[i] ELSE <<"0">>)]
        single == [i \in 1..Len(outputs) |->
                    IF i = 1 THEN parseOverrideValue(outputs[1].type, override.value)
                    ELSE [ok |-> TRUE, v |-> generateDefaultValue(outputs[i])]]
        parsed == IF Len(override.values) > 0 THEN multi ELSE single
        encoded == encodeAbiParameters(outputs, [i \in 1..Len(outputs) |-> parsed[i].v])
        defaults == encodeAbiParameters(outputs, generateDefaultValues(outputs))
    IN IF override.type = "revert" THEN Thrown("RevertError", override.revertReason)
       ELSE IF Len(override.values) = 0 /\ ~override.hasValue
            THEN (IF defaults.ok THEN Returned(defaults.hex)
                  ELSE Thrown("AbiEncodingError", <<>>))
       ELSE IF \E i \in 1..Len(outputs) : ~parsed[i].ok THEN Thrown("SyntaxError", <<>>)
       ELSE IF encoded.ok THEN Returned(encoded.hex)
       ELSE Thrown("AbiEncodingError", <<>>)

\* call with the fault of passing on the error of decodeFunctionData
callOnStrict(reg, ovr, store, to, data) ==
    IF registryGet(reg, to) = NoContract THEN Thrown("UnknownContractError", to)
    ELSE IF ~decodeFunctionData(registryGet(reg, to).abi, data).ok
         THEN Thrown("AbiFunctionSignatureNotFoundError", <<>>)
    ELSE Returned(<<"0","x">>)

\* Blockchain.call (lines 338-381) on given registry, overrides and store
callOn(reg, ovr, store, to, data) ==
    LET contract == registryGet(reg, to)
        decoded == decodeFunctionData(contract.abi, data)
        fallbacks == {i \in 1..Len(SELECTOR_FALLBACKS) :
                         SELECTOR_FALLBACKS[i].selector = data.selector}
        abiFunc == getAbiFunction(contract.abi, decoded.functionName)
        storedValues == storeGet(store, to, decoded.functionName, decoded.args)
        values == IF storedValues.found THEN storedValues.values
                  ELSE generateDefaultValues(abiFunc.outputs)
        encoded == encodeAbiParameters(abiFunc.outputs, values)
    IN IF contract = NoContract THEN Thrown("UnknownContractError", to)
       ELSE IF ~decoded.ok
            THEN (IF fallbacks # {}
                  THEN Returned(SELECTOR_FALLBACKS[CHOOSE i \in fallbacks : TRUE].result)
                  ELSE Returned(<<"0","x">>))
       ELSE IF abiFunc = NoItem \/ Len(abiFunc.outputs) = 0 THEN Returned(<<"0","x">>)
       ELSE IF ovr.defined /\ overrideHas(ovr, to, decoded.functionName, FALSE, <<>>)
            THEN applyOverride(overrideGet(ovr, to, decoded.functionName, FALSE, <<>>), abiFunc)
       ELSE IF encoded.ok THEN Returned(encoded.hex)
       ELSE Thrown("AbiEncodingError", <<>>)

call(to, data) == callOn(registry, overrides, state, to, data)

NoReceipt == [transactionHash |-> <<>>, transactionIndex |-> 0, blockNumber |-> 0,
              blockHash |-> <<>>, from |-> <<>>, to |-> <<>>, gasUsed |-> 0,
              cumulativeGasUsed |-> 0, status |-> "null", logs |-> <<>>]

\* Blockchain.getTransactionReceipt: null is NoReceipt
getTransactionReceipt(hash) ==
    IF hash \in DOMAIN receipts THEN receipts[hash] ELSE NoReceipt

\* Blockchain.isPending
isPending(hash) == \E i \in 1..Len(mempool) : mempool[i].hash = hash

\* Blockchain.getBlock on a ledger and a mempool.  The argument is a tag
\* ("latest", "pending") or a block number; null is NoBlock.
BlockTag(tag) == [tag |-> tag, number |-> 0]
BlockAt(number) == [tag |-> "number", number |-> number]

NoBlock == [number |-> -1, hash |-> <<>>, parentHash |-> <<>>,
            transactions |-> <<>>, receipts |-> <<>>]

getBlockOn(ledger, pool, numberOrTag) ==
    IF numberOrTag.tag = "latest" THEN ledger[Len(ledger)]
    ELSE IF numberOrTag.tag = "pending"
    THEN Block(ledger[Len(ledger)].number + 1, Prefix0x(padStart(<<>>, HashHexLen)),
               ledger[Len(ledger)].hash, pool, <<>>)
    ELSE IF numberOrTag.number + 1 \in 1..Len(ledger) THEN ledger[numberOrTag.number + 1]
    ELSE NoBlock

getBlock(numberOrTag) == getBlockOn(blocks, mempool, numberOrTag)

RECURSIVE flattenLogs(_, _)
flattenLogs(blockReceipts, i) ==
    IF i > Len(blockReceipts) THEN <<>>
    ELSE blockReceipts[i].logs \o flattenLogs(blockReceipts, i + 1)

\* the logs of a block, in transaction order and then in emission order
blockLogs(block) == flattenLogs(block.receipts, 1)

\* A getLogs filter.  An optional field is <<>> when it is absent and <<v>>
\* when it holds v; an entry of topics is <<>> for null.
LogFilter(fromBlock, toBlock, address, topics) ==
    [fromBlock |-> fromBlock, toBlock |-> toBlock, address |-> address, topics |-> topics]

\* logMatches with the fault of comparing the addresses as they are spelled
logMatchesExactCase(log, filter) ==
    /\ filter.address # <<>> => log.address = filter.address[1]
    /\ \A t \in 1..Len(filter.topics) :
          filter.topics[t] # <<>> =>
              (t <= Len(log.topics) /\ filter.topics[t][1] = log.topics[t])

\* lines 500-521: the address test and the topics test of one log
logMatches(log, filter) ==
    /\ ~(/\ filter.address # <<>>
          /\ filter.address[1] # <<>>
          /\ toLowerCase(log.address) # toLowerCase(filter.address[1]))
    /\ \A t \in 1..Len(filter.topics) :
          ~(/\ filter.topics[t] # <<>>
            /\ (t > Len(log.topics) \/ filter.topics[t][1] # log.topics[t]))

\* the matching logs of one block, in receipt order
matchingLogs(logs, filter) ==
    LET Keep(log) == logMatches(log, filter)
    IN SelectSeq(logs, Keep)

\* lines 494-526: the loop over the block numbers i..toBlock
RECURSIVE getLogsFrom(_, _, _, _)
getLogsFrom(ledger, filter, i, toBlock) ==
    IF i > toBlock THEN <<>>
    ELSE (IF i + 1 \in 1..Len(ledger)
          THEN matchingLogs(blockLogs(ledger[i + 1]), filter) ELSE <<>>)
         \o getLogsFrom(ledger, filter, i + 1, toBlock)

\* Blockchain.getLogs
getLogs(filter) ==
    getLogsFrom(blocks, filter,
                IF filter.fromBlock = <<>> THEN 0 ELSE filter.fromBlock[1],
                IF filter.toBlock = <<>> THEN blockNumber ELSE filter.toBlock[1])

(***************************************************************************)
(* Inputs of the model                                                     *)
(***************************************************************************)
SENDER == Prefix0x(padStart(<<"9","9">>, AddressHexLen))
ADDR_A == Prefix0x(padStart(<<"0","a">>, AddressHexLen))
ADDR_A_UPPER == Prefix0x(padStart(<<"0","A">>, AddressHexLen))
ADDR_B == generateAddress(1)
UNKNOWN_ADDRESS == Prefix0x([i \in 1..AddressHexLen |-> "f"])

dSet(v) == Calldata(nSet, <<tUint256>>, <<v>>)
dGet == Calldata(nGet, <<>>, <<>>)
dSetN(k, v) == Calldata(nSetN, <<tUint256, tUint256>>, <<k, v>>)
dGetN(k) == Calldata(nGetN, <<tUint256>>, <<k>>)
dN(k) == Calldata(nN, <<tUint256>>, <<k>>)
dSetSettings(v) == Calldata(nSetSettings, <<tUint256>>, <<v>>)
dSettings == Calldata(nSettings, <<>>, <<>>)
\* 0x12345678: the selector of no function of the ABI or the fallback table
dMalformed == Calldata(<<"0","x","1","2","3","4","5","6","7","8">>, <<>>, <<>>)

\* probing calls of wallets and explorers: decimals() and balanceOf(address),
\* which the contracts of the model do not have
dDecimals == Calldata(<<"d","e","c","i","m","a","l","s">>, <<>>, <<>>)
dBalanceOf(w) == Calldata(<<"b","a","l","a","n","c","e","O","f">>, <<tAddress>>, <<w>>)
ProbeData == {dMalformed, dDecimals, dBalanceOf(1)}

\* the eth_getBlockByNumber requests clients make
BlockTags == {BlockTag("latest"), BlockTag("pending"), BlockAt(1), BlockAt(MaxBlocks + 2)}

\* the eth_getLogs filters clients pass: none, block ranges (also one past
\* the ledger and an empty one), addresses in either letter case, and
\* topics (the event signature, a null entry followed by the indexed
\* sender, a topic no event produces, more entries than a log has topics)
LogFilters ==
    LET nSet256 == keccak256(nNSet \o <<"(">> \o tUint256 \o <<",">> \o tUint256 \o <<")">>)
        sender == Prefix0x(padStart(slice(SENDER, 2), HashHexLen))
        absent == keccak256(<<"N","o","n","e","(",")">>)
    IN {LogFilter(<<>>, <<>>, <<>>, <<>>),
        LogFilter(<<1>>, <<1>>, <<>>, <<>>),
        LogFilter(<<2>>, <<MaxBlocks + 2>>, <<>>, <<>>),
        LogFilter(<<2>>, <<1>>, <<>>, <<>>),
        LogFilter(<<>>, <<>>, <<ADDR_A_UPPER>>, <<>>),
        LogFilter(<<0>>, <<1>>, <<ADDR_B>>, <<>>),
        LogFilter(<<>>, <<>>, <<>>, <<<<nSet256>>>>),
        LogFilter(<<>>, <<>>, <<ADDR_A>>, <<<<>>, <<sender>>>>),
        LogFilter(<<>>, <<>>, <<>>, <<<<absent>>>>),
        LogFilter(<<>>, <<>>, <<>>, <<<<>>, <<>>, <<sender>>>>)}

TxRequest(from, to, data) == [from |-> from, to |-> to, data |-> data]

\* the eth_sendTransaction requests clients submit
TxInputs ==
    {TxRequest(SENDER, ADDR_A, d) : d \in {dSet(5), dSetN(1, 5), dSetSettings(5), dMalformed}}
    \cup {TxRequest(SENDER, ADDR_A_UPPER, dSet(7))}
    \cup {TxRequest(SENDER, a, dSet(7)) : a \in {ADDR_B, UNKNOWN_ADDRESS}}

\* the eth_call requests clients make
CallTargets == {ADDR_A, ADDR_A_UPPER, ADDR_B, UNKNOWN_ADDRESS}
CallData == {dGet, dGetN(1), dGetN(2), dN(1), dSettings, dSet(5), dMalformed}

\* what a (re)load of the configuration finds: the ABI files of the
\* directory and the config's pinned contracts
AbiFile(name, abi) == [name |-> name, abi |-> abi]
ConfigContract(address, name, abi, loaded) ==
    [address |-> address, name |-> name, abi |-> abi, loaded |-> loaded]

RegistryInputs == {
    [abiFiles |-> <<AbiFile(nToken, TokenAbi), AbiFile(nOther, TokenAbi)>>,
     configContracts |-> <<ConfigContract(ADDR_A, nToken, TokenAbi, TRUE)>>],
    [abiFiles |-> <<AbiFile(nToken, TokenAbi)>>,
     configContracts |-> <<ConfigContract(ADDR_A, nToken, TokenAbi, TRUE)>>] }

InitialRegistryInput ==
    [abiFiles |-> <<AbiFile(nToken, TokenAbi), AbiFile(nOther, TokenAbi)>>,
     configContracts |-> <<ConfigContract(ADDR_A, nToken, TokenAbi, TRUE)>>]

\* the overrides section of the configuration
RawOverrides == <<
    RawOverride(nToken, nGetN, <<"1">>, RawString(<<"9">>)),
    RawOverride(nToken, nGetN, <<>>, RawString(<<"8">>)),
    RawOverride(nToken, nN, <<"1">>, RawString(<<"9">>)),
    RawOverride(nToken, nGet, <<>>, RawRevert(<<"n","o">>)),
    RawOverride(nToken, nSet, <<>>, RawRevert(<<"n","o">>)) >>

\* buildRegistry at server start
InitialRegistry ==
    populateRegistry(<<>>, InitialRegistryInput.abiFiles,
                     InitialRegistryInput.configContracts)

\* the override stores the server builds: none when the configuration has
\* no overrides section, else new OverrideStore(config.overrides, registry).
\* Every target of RawOverrides is the contract Token, which every registry
\* of the model holds at ADDR_A: the store is the same for all of them.
OverrideInputs == {NoOverrideStore, OverrideStore(RawOverrides, InitialRegistry)}

(***************************************************************************)
(* State machine                                                           *)
(***************************************************************************)
NotSent == [status |-> "none", hash |-> <<>>, to |-> <<>>]

\* no read operation was made yet
NoRead == [op |-> "none", input |-> <<>>, output |-> <<>>]

\* createRpcHandler without and with the proxy option; calls are the
\* requests ProxyClient.call was given, in order
NoProxy == [defined |-> FALSE, calls |-> <<>>]
ProxyClient == [defined |-> TRUE, calls |-> <<>>]

\* the state after construction: the engine with one of the registries,
\* override stores and block times, behind a handler with one of the proxy
\* options; reads holds what the clients have in hand
InitWith(registries, stores, blockTimes, reads, proxies) ==
    /\ registry \in registries
    /\ overrides \in stores
    /\ blockTime \in blockTimes
    /\ blocks = <<GenesisBlock>>
    /\ mempool = <<>>
    /\ state = [x \in {} |-> <<>>]
    /\ txNonce = 0
    /\ miningInterval = FALSE
    /\ receipts = [x \in {} |-> NoReceipt]
    /\ sent = NotSent
    /\ read \in reads
    /\ proxy \in proxies

\* the engine used directly, no proxy anywhere
Init == InitWith({InitialRegistry}, OverrideInputs, {0, 1}, {NoRead}, {NoProxy})

\* lines 158-172: the decoded call a transaction carries; nothing is
\* decoded for an unregistered target or undecodable calldata
decodeForSend(contract, data) ==
    IF contract = NoContract THEN DecodeFailed
    ELSE decodeFunctionData(contract.abi, data)

\* lines 177-187: the transaction object
newTransaction(nonce, from, to, data, contract, decoded) ==
    Transaction(generateTxHash(nonce), from, to, data, nonce, decoded,
                IF decoded.ok THEN contract.name ELSE <<>>)

\* the transaction sendTransaction builds for the registry's entry of to
transactionFor(nonce, from, to, data, contract) ==
    newTransaction(nonce, from, to, data, contract, decodeForSend(contract, data))

\* the effect of mineBlock on the engine's fields
Mine(mined) ==
    /\ blocks' = mined.blocks
    /\ mempool' = mined.mempool
    /\ state' = mined.state
    /\ receipts' = mined.receipts

\* sendTransaction with the fault of queueing in instant mode too
SendTransactionQueued(from, to, data) ==
    /\ txNonce < MaxTx
    /\ txNonce' = txNonce + 1
    /\ mempool' = Append(mempool, transactionFor(txNonce, from, to, data,
                                                 registryGet(registry, to)))
    /\ sent' = [status |-> "returned", hash |-> generateTxHash(txNonce), to |-> to]
    /\ UNCHANGED <<proxy, registry, overrides, blockTime, blocks, state, receipts, miningInterval,
                   read>>

\* Blockchain.sendTransaction (lines 148-200)
SendTransaction(from, to, data) ==
    /\ txNonce < MaxTx
    /\ blockTime = 0 => Len(blocks) <= MaxBlocks
    /\ txNonce' = txNonce + 1
    /\ IF blockTime = 0
       THEN Mine(mineBlock(registry, blocks,
                           Append(mempool, transactionFor(txNonce, from, to, data,
                                                          registryGet(registry, to))),
                           state, receipts))
       ELSE /\ mempool' = Append(mempool, transactionFor(txNonce, from, to, data,
                                                         registryGet(registry, to)))
            /\ UNCHANGED <<blocks, state, receipts>>
    /\ sent' = [status |-> "returned", hash |-> generateTxHash(txNonce), to |-> to]
    /\ UNCHANGED <<proxy, registry, overrides, blockTime, miningInterval, read>>

\* Blockchain.mineBlock called directly (evm_mine, tests)
MineBlock ==
    /\ Len(blocks) <= MaxBlocks
    /\ Mine(mineBlock(registry, blocks, mempool, state, receipts))
    /\ UNCHANGED <<proxy, registry, overrides, blockTime, txNonce, miningInterval, sent, read>>

\* the setInterval callback of startMining (lines 130-132)
TimerTick == miningInterval /\ MineBlock

\* startMining with the fault of running the callback once when the timer
\* is armed
StartMiningEager ==
    /\ miningInterval' = IF miningInterval THEN TRUE
                         ELSE IF blockTime = 0 THEN FALSE ELSE TRUE
    /\ IF ~miningInterval /\ blockTime # 0 /\ Len(blocks) <= MaxBlocks
       THEN Mine(mineBlock(registry, blocks, mempool, state, receipts))
       ELSE UNCHANGED <<blocks, mempool, state, receipts>>
    /\ UNCHANGED <<proxy, registry, overrides, blockTime, txNonce, sent, read>>

\* the callback with the fault of a one-shot timer (setTimeout): the first
\* run disarms it
TickOnce ==
    /\ miningInterval
    /\ mempool = <<>> => Len(blocks) <= MaxBlocks
    /\ Mine(mineBlock(registry, blocks, mempool, state, receipts))
    /\ miningInterval' = FALSE
    /\ UNCHANGED <<proxy, registry, overrides, blockTime, txNonce, sent, read>>

\* the setInterval callback in the runs that follow a transaction to its
\* receipt: the bound of the ledger holds back the rounds that find nothing
\* pending, never a round that finds a transaction
Tick ==
    /\ miningInterval
    /\ mempool = <<>> => Len(blocks) <= MaxBlocks
    /\ Mine(mineBlock(registry, blocks, mempool, state, receipts))
    /\ UNCHANGED <<proxy, registry, overrides, blockTime, txNonce, miningInterval, sent, read>>

\* Blockchain.startMining (lines 122-133)
StartMining ==
    /\ miningInterval' = IF miningInterval THEN TRUE
                         ELSE IF blockTime = 0 THEN FALSE ELSE TRUE
    /\ UNCHANGED <<proxy, registry, overrides, blockTime, blocks, mempool, state, txNonce,
                   receipts, sent, read>>

\* stopMining with the fault of arming the timer when none is armed
StopMiningToggle ==
    /\ miningInterval' = ~miningInterval
    /\ UNCHANGED <<proxy, registry, overrides, blockTime, blocks, mempool, state, txNonce,
                   receipts, sent, read>>

\* Blockchain.stopMining (lines 138-143)
StopMining ==
    /\ miningInterval' = FALSE
    /\ UNCHANGED <<proxy, registry, overrides, blockTime, blocks, mempool, state, txNonce,
                   receipts, sent, read>>

\* Blockchain.setOverrides with the store built from the reloaded config
SetOverrides(store) ==
    /\ overrides' = store
    /\ UNCHANGED <<proxy, registry, blockTime, blocks, mempool, state, txNonce,
                   miningInterval, receipts, sent, read>>

\* ReloadRegistry with the fault of building a fresh engine around the
\* reloaded registry
ReloadRegistryFresh(input) ==
    /\ registry' = populateRegistry(<<>>, input.abiFiles, input.configContracts)
    /\ blocks' = <<GenesisBlock>>
    /\ mempool' = <<>>
    /\ receipts' = [x \in {} |-> NoReceipt]
    /\ txNonce' = 0
    /\ UNCHANGED <<proxy, overrides, blockTime, state, miningInterval, sent, read>>

\* hot reload of the contracts: registry.clear() then populateRegistry
ReloadRegistry(input) ==
    /\ registry' = populateRegistry(<<>>, input.abiFiles, input.configContracts)
    /\ UNCHANGED <<proxy, overrides, blockTime, blocks, mempool, state, txNonce,
                   miningInterval, receipts, sent, read>>

\* getBlock with the fault of taking the pending transactions out of the
\* mempool (splice for map)
GetBlockDraining(numberOrTag) ==
    /\ read' = [op |-> "getBlock", input |-> numberOrTag, output |-> getBlock(numberOrTag)]
    /\ mempool' = IF numberOrTag.tag = "pending" THEN <<>> ELSE mempool
    /\ UNCHANGED <<proxy, registry, overrides, blockTime, blocks, state, txNonce,
                   miningInterval, receipts, sent>>

\* getBlock with the fault of appending the virtual pending block to the
\* ledger
GetBlockPersisting(numberOrTag) ==
    /\ read' = [op |-> "getBlock", input |-> numberOrTag, output |-> getBlock(numberOrTag)]
    /\ blocks' = IF numberOrTag.tag = "pending" /\ Len(blocks) <= MaxBlocks
                 THEN Append(blocks, getBlock(numberOrTag)) ELSE blocks
    /\ UNCHANGED <<proxy, registry, overrides, blockTime, mempool, state, txNonce,
                   miningInterval, receipts, sent>>

\* Blockchain.call (eth_call): the result or the error is handed back
Call(to, data) ==
    /\ read' = [op |-> "call", input |-> [to |-> to, data |-> data],
                output |-> call(to, data)]
    /\ UNCHANGED <<proxy, registry, overrides, blockTime, blocks, mempool, state, txNonce,
                   miningInterval, receipts, sent>>

\* Blockchain.getBlock (eth_getBlockByNumber)
GetBlock(numberOrTag) ==
    /\ read' = [op |-> "getBlock", input |-> numberOrTag, output |-> getBlock(numberOrTag)]
    /\ UNCHANGED <<proxy, registry, overrides, blockTime, blocks, mempool, state, txNonce,
                   miningInterval, receipts, sent>>

\* Blockchain.getLogs (eth_getLogs)
GetLogs(filter) ==
    /\ read' = [op |-> "getLogs", input |-> filter, output |-> [logs |-> getLogs(filter)]]
    /\ UNCHANGED <<proxy, registry, overrides, blockTime, blocks, mempool, state, txNonce,
                   miningInterval, receipts, sent>>

\* Blockchain.getTransactionReceipt (eth_getTransactionReceipt)
GetTransactionReceipt(hash) ==
    /\ read' = [op |-> "getTransactionReceipt", input |-> [hash |-> hash],
                output |-> getTransactionReceipt(hash)]
    /\ UNCHANGED <<proxy, registry, overrides, blockTime, blocks, mempool, state, txNonce,
                   miningInterval, receipts, sent>>

\* Blockchain.isPending
IsPending(hash) ==
    /\ read' = [op |-> "isPending", input |-> [hash |-> hash],
                output |-> [pending |-> isPending(hash)]]
    /\ UNCHANGED <<proxy, registry, overrides, blockTime, blocks, mempool, state, txNonce,
                   miningInterval, receipts, sent>>

(***************************************************************************)
(* JSON-RPC handler (createRpcHandler of src/unnamed/part_009, 478-915)    *)
(***************************************************************************)
\* RpcResult: { result } or { error: { code, message } }
RpcResult(result) == [error |-> FALSE, code |-> 0, message |-> <<>>, result |-> result]
RpcError(code, message) == [error |-> TRUE, code |-> code, message |-> message, result |-> <<>>]

\* the keys of the handlers object literal (lines 485-836)
LocalHandlers == {
    <<"e","t","h","_","c","h","a","i","n","I","d">>,
    <<"e","t","h","_","b","l","o","c","k","N","u","m","b","e","r">>,
    <<"e","t","h","_","c","a","l","l">>,
    <<"e","t","h","_","s","e","n","d","T","r","a","n","s","a","c","t","i","o","n">>,
    <<"e","t","h","_","g","e","t","T","r","a","n","s","a","c","t","i","o","n","R","e","c","e","i","p","t">>,
    <<"e","t","h","_","g","e","t","B","l","o","c","k","B","y","N","u","m","b","e","r">>,
    <<"e","t","h","_","g","e","t","L","o","g","s">>,
    <<"n","e","t","_","v","e","r","s","i","o","n">>,
    <<"e","t","h","_","g","e","t","B","a","l","a","n","c","e">>,
    <<"e","t","h","_","g","e","t","C","o","d","e">>,
    <<"e","t","h","_","g","a","s","P","r","i","c","e">>,
    <<"e","t","h","_","e","s","t","i","m","a","t","e","G","a","s">>,
    <<"e","t","h","_","g","e","t","T","r","a","n","s","a","c","t","i","o","n","C","o","u","n","t">>,
    <<"e","t","h","_","a","c","c","o","u","n","t","s">>,
    <<"e","t","h","_","s","e","n","d","R","a","w","T","r","a","n","s","a","c","t","i","o","n">>,
    <<"e","t","h","_","g","e","t","T","r","a","n","s","a","c","t","i","o","n","B","y","H","a","s","h">>,
    <<"e","t","h","_","g","e","t","B","l","o","c","k","B","y","H","a","s","h">>,
    <<"e","t","h","_","m","a","x","P","r","i","o","r","i","t","y","F","e","e","P","e","r","G","a","s">>,
    <<"e","t","h","_","f","e","e","H","i","s","t","o","r","y">>,
    <<"w","e","b","3","_","c","l","i","e","n","t","V","e","r","s","i","o","n">>,
    <<"e","t","h","_","s","y","n","c","i","n","g">>,
    <<"e","t","h","_","m","i","n","i","n","g">>,
    <<"e","t","h","_","h","a","s","h","r","a","t","e">>,
    <<"e","t","h","_","g","e","t","U","n","c","l","e","C","o","u","n","t","B","y","B","l","o","c","k","H","a","s","h">>,
    <<"e","t","h","_","g","e","t","U","n","c","l","e","C","o","u","n","t","B","y","B","l","o","c","k","N","u","m","b","e","r">>}

\* lines 468-476
PROXY_SYSTEM_METHODS == <<
    <<"e","t","h","_","g","e","t","B","a","l","a","n","c","e">>,
    <<"e","t","h","_","g","e","t","C","o","d","e">>,
    <<"e","t","h","_","g","a","s","P","r","i","c","e">>,
    <<"e","t","h","_","e","s","t","i","m","a","t","e","G","a","s">>,
    <<"e","t","h","_","g","e","t","T","r","a","n","s","a","c","t","i","o","n","C","o","u","n","t">>,
    <<"e","t","h","_","a","c","c","o","u","n","t","s">>,
    <<"e","t","h","_","g","e","t","S","t","o","r","a","g","e","A","t">>>>

eth_call == <<"e","t","h","_","c","a","l","l">>
eth_sendTransaction == <<"e","t","h","_","s","e","n","d","T","r","a","n","s","a","c","t","i","o","n">>
eth_getBalance == <<"e","t","h","_","g","e","t","B","a","l","a","n","c","e">>
eth_blockNumber == <<"e","t","h","_","b","l","o","c","k","N","u","m","b","e","r">>
eth_getStorageAt == <<"e","t","h","_","g","e","t","S","t","o","r","a","g","e","A","t">>
eth_someCustomMethod == <<"e","t","h","_","s","o","m","e","C","u","s","t","o","m","M","e","t","h","o","d">>

\* the message of a RevertError (src/src/errors.ts, line 54): reason ||
\* "Execution reverted"
RevertErrorMessage(reason) ==
    IF reason = <<>> THEN <<"E","x","e","c","u","t","i","o","n"," ","r","e","v","e","r","t","e","d">>
    ELSE reason

\* the message of an UnknownContractError (src/src/errors.ts, lines 17-19)
UnknownContractMessage(address) ==
    <<"U","n","k","n","o","w","n"," ","c","o","n","t","r","a","c","t"," ","a","d","d","r","e","s","s",":"," ">>
    \o address \o
    <<"."," ","R","e","g","i","s","t","e","r"," ","i","t"," ","i","n"," ","a","b","i",".","c","o","n","f","i","g",".","j","s","o","n"," ","o","r"," ","a","d","d"," ","A","B","I"," ","t","o"," ","t","h","e"," ","a","b","i","s"," ","d","i","r","e","c","t","o","r","y",".">>

\* formatError with the fault of reporting a revert as a plain failure
formatErrorPlain(err) == RpcError(-32000, RevertErrorMessage(err.reason))

\* formatError (lines 890-915); the message of an error of the codec
\* library is its name here
formatError(err) ==
    IF err.status = "RevertError"
    THEN RpcError(3, <<"e","x","e","c","u","t","i","o","n"," ","r","e","v","e","r","t","e","d",":"," ">>
                     \o RevertErrorMessage(err.reason))
    ELSE IF err.status = "UnknownContractError"
    THEN RpcError(-32000, UnknownContractMessage(err.reason))
    ELSE RpcError(-32000, <<err.status>>)

\* what ProxyClient.call can do with a request: hand back the upstream's
\* result, throw a ProxyError, or (a stand-in client) throw another error
ProxyOutcomes == {
    [kind |-> "result", code |-> 0, message |-> <<>>,
     result |-> Prefix0x(padStart(<<"1">>, HashHexLen))],
    [kind |-> "ProxyError", code |-> -32603,
     message |-> <<"U","p","s","t","r","e","a","m"," ","R","P","C"," ","e","r","r","o","r">>,
     result |-> <<>>],
    [kind |-> "Error", code |-> 0, message |-> <<>>, result |-> <<>>]}

\* the requests of the clients of the handler
RpcCalls == {<<ADDR_A, dGet>>, <<ADDR_A, dSet(5)>>, <<UNKNOWN_ADDRESS, dGet>>}
RpcSends == {<<SENDER, ADDR_A, dSet(5)>>, <<SENDER, UNKNOWN_ADDRESS, dSet(7)>>}
RpcMethods == {eth_getBalance, eth_blockNumber, eth_getStorageAt, eth_someCustomMethod}

\* the try/catch around proxy.call: other is the answer to an error that is
\* no ProxyError
proxyReply(outcome, other) ==
    IF outcome.kind = "result" THEN RpcResult(outcome.result)
    ELSE IF outcome.kind = "ProxyError" THEN RpcError(outcome.code, outcome.message)
    ELSE other

\* the handler the method name is bound to once createRpcHandler is done
\* (lines 840-855 rebind the system methods when a proxy is configured)
handlerOf(method, proxied) ==
    IF proxied /\ \E i \in 1..Len(PROXY_SYSTEM_METHODS) : PROXY_SYSTEM_METHODS[i] = method
    THEN "proxy"
    ELSE IF method \in LocalHandlers THEN "local"
    ELSE "none"

\* lines 489-491 and 681-683: of the local handlers that take no parameter,
\* eth_blockNumber and eth_getBalance
localResult(method) ==
    IF method = eth_blockNumber THEN RpcResult(Prefix0x(toString16(blockNumber)))
    ELSE RpcResult(<<"0","x","5","6","b","c","7","5","e","2","d","6","3","1","0","0","0","0","0">>)

\* lines 513-522: the answer to what blockchain.call returned or threw
answerOf(called) ==
    IF called.status = "ok" THEN RpcResult(called.result) ELSE formatError(called)

\* lines 493-523, the local branch: blockchain.call inside try/catch
callLocally(to, data) == answerOf(call(to, data))

\* proxy.call(method, params) and the answer made of its outcome
Forward(method, params, reply) ==
    /\ Len(proxy.calls) < MaxProxied
    /\ proxy' = [proxy EXCEPT !.calls = Append(@, [method |-> method, params |-> params])]
    /\ read' = [op |-> "rpc", input |-> [method |-> method, params |-> params],
                output |-> reply]
    /\ UNCHANGED <<registry, overrides, blockTime, blocks, mempool, state, txNonce,
                   miningInterval, receipts, sent>>

\* an answer made without the proxy and without a change of the engine
Answer(method, params, reply) ==
    /\ read' = [op |-> "rpc", input |-> [method |-> method, params |-> params],
                output |-> reply]
    /\ UNCHANGED <<proxy, registry, overrides, blockTime, blocks, mempool, state, txNonce,
                   miningInterval, receipts, sent>>

\* eth_call with the fault of asking the proxy first whenever one is
\* configured
EthCallProxyFirst(to, data) ==
    IF proxy.defined
    THEN \E outcome \in ProxyOutcomes :
            Forward(eth_call, [to |-> to, data |-> data],
                    proxyReply(outcome, RpcError(-32603, <<>>)))
    ELSE Answer(eth_call, [to |-> to, data |-> data], callLocally(to, data))

\* handleRpcRequest("eth_call", [{to, data}]) (lines 493-523)
EthCall(to, data) ==
    IF ~isKnownContract(to) /\ proxy.defined
    THEN \E outcome \in ProxyOutcomes :
            Forward(eth_call, [to |-> to, data |-> data],
                    proxyReply(outcome, RpcError(-32603, <<"P","r","o","x","y"," ","e","r","r","o","r">>)))
    ELSE Answer(eth_call, [to |-> to, data |-> data], callLocally(to, data))

\* handleRpcRequest("eth_sendTransaction", [{from, to, data}]) (lines
\* 525-561); the local branch answers with the hash sendTransaction returns
EthSendTransaction(from, to, data) ==
    IF ~isKnownContract(to) /\ proxy.defined
    THEN \E outcome \in ProxyOutcomes :
            Forward(eth_sendTransaction, [to |-> to, data |-> data],
                    proxyReply(outcome, RpcError(-32603, <<"P","r","o","x","y"," ","e","r","r","o","r">>)))
    ELSE SendTransaction(from, to, data)

\* handleRpcRequest(method, []) for a method that takes no parameter (lines
\* 857-884)
HandleRpcRequest(method) ==
    IF handlerOf(method, proxy.defined) = "proxy"
    THEN \E outcome \in ProxyOutcomes :
            Forward(method, <<>>,
                    proxyReply(outcome, RpcError(-32603, <<"F","a","i","l","e","d"," ","t","o"," ","p","r","o","x","y"," ">>
                                                      \o method)))
    ELSE IF handlerOf(method, proxy.defined) = "local"
    THEN Answer(method, <<>>, localResult(method))
    ELSE IF proxy.defined
    THEN \E outcome \in ProxyOutcomes :
            Forward(method, <<>>,
                    proxyReply(outcome, RpcError(-32601, <<"M","e","t","h","o","d"," ","n","o","t"," ","f","o","u","n","d",":"," ">>
                                                      \o method)))
    ELSE Answer(method, <<>>, RpcError(-32601, <<"M","e","t","h","o","d"," ","n","o","t"," ","f","o","u","n","d",":"," ">>
                                               \o method))

Next ==
    \/ \E r \in TxInputs : SendTransaction(r.from, r.to, r.data)
    \/ MineBlock
    \/ TimerTick
    \/ StartMining
    \/ StopMining
    \/ \E store \in OverrideInputs : SetOverrides(store)

\* the engine with a registry that is never reloaded
Spec == Init /\ [][Next]_vars

\* a reload of the configuration replaces the override store and refills the
\* registry; a mining round is the same step whether the timer or a direct
\* call starts it, so the timer is left out here
NextReload ==
    \/ \E r \in TxInputs : SendTransaction(r.from, r.to, r.data)
    \/ MineBlock
    \/ \E store \in OverrideInputs : SetOverrides(store)
    \/ \E input \in RegistryInputs : ReloadRegistry(input)

\* the engine under hot reload of the configuration
SpecReload == Init /\ [][NextReload]_vars

\* the engine under submissions and mining rounds alone, with the
\* configuration it was started with: set sent to either contract, in either
\* letter case, and to an unregistered address, and undecodable calldata
NextWrites ==
    \/ \E r \in {x \in TxInputs : x.data \in {dSet(5), dSet(7), dMalformed}} :
          SendTransaction(r.from, r.to, r.data)
    \/ MineBlock

SpecWrites == Init /\ [][NextWrites]_vars

\* the engine as the server runs it: blocks are mined by the interval timer
\* (or by the submission itself in instant mode), never by a direct call
NextTimer ==
    \/ \E r \in TxInputs : SendTransaction(r.from, r.to, r.data)
    \/ TimerTick
    \/ StartMining
    \/ StopMining

SpecTimer == Init /\ [][NextTimer]_vars

\* the engine with clients that read between the submissions (of set to a
\* registered and to an unregistered address) and the mining rounds; the
\* reads include a call that reverts by override, a call of an unregistered
\* address, a block past the ledger and the hash of no transaction
NextReads ==
    \/ \E r \in {x \in TxInputs : x.data \in {dSet(5), dSet(7)}
                                   /\ x.to \in {ADDR_A, UNKNOWN_ADDRESS}} :
          SendTransaction(r.from, r.to, r.data)
    \/ MineBlock
    \/ \E c \in {<<ADDR_A, dGet>>, <<ADDR_A, dMalformed>>, <<UNKNOWN_ADDRESS, dGet>>} :
          Call(c[1], c[2])
    \/ \E numberOrTag \in BlockTags : GetBlock(numberOrTag)
    \/ \E filter \in {f \in LogFilters : f.address # <<>>} : GetLogs(filter)
    \/ \E nonce \in {0, MaxTx} : GetTransactionReceipt(generateTxHash(nonce))
    \/ \E nonce \in {0, MaxTx} : IsPending(generateTxHash(nonce))

SpecReads == Init /\ [][NextReads]_vars

\* the engine under setters that write zero next to one that writes 5:
\* set, the keyed setN and setSettings, sent to the contract Token and mined
ZeroWrites == {dSet(0), dSet(5), dSetN(1, 0), dSetSettings(0)}

NextZero ==
    \/ \E d \in ZeroWrites : SendTransaction(SENDER, ADDR_A, d)
    \/ MineBlock

SpecZero == Init /\ [][NextZero]_vars

\* a contract whose getters declare outputs their setters do not write one
\* for one: set(value) / get() as before, the keyed setPair(k, v) whose
\* getter getPair(k) declares two outputs, and two getters without setter
nSetPair == <<"s","e","t","P","a","i","r">>
nGetPair == <<"g","e","t","P","a","i","r">>
nLocked == <<"l","o","c","k","e","d">>
nTotal == <<"t","o","t","a","l">>

PairAbi == <<
    AbiFunction(nSet, <<Param(nValue, tUint256, FALSE)>>, <<>>),
    AbiFunction(nGet, <<>>, <<Param(<<>>, tUint256, FALSE)>>),
    AbiFunction(nSetPair, <<Param(nK, tUint256, FALSE), Param(nV, tUint256, FALSE)>>, <<>>),
    AbiFunction(nGetPair, <<Param(nK, tUint256, FALSE)>>,
                <<Param(<<>>, tUint256, FALSE), Param(<<>>, tUint256, FALSE)>>),
    AbiFunction(nLocked, <<>>, <<Param(<<>>, tBool, FALSE)>>),
    AbiFunction(nTotal, <<>>, <<Param(<<>>, tUint256, FALSE)>>)
>>

dSetPair(k, v) == Calldata(nSetPair, <<tUint256, tUint256>>, <<k, v>>)
dGetPair(k) == Calldata(nGetPair, <<tUint256>>, <<k>>)
dLocked == Calldata(nLocked, <<>>, <<>>)
dTotal == Calldata(nTotal, <<>>, <<>>)

PairRegistry == register(<<>>, ADDR_A, nToken, PairAbi)

\* overrides of a value, of a revert and of a value that is no number
PairOverrides == <<
    RawOverride(nToken, nGet, <<>>, RawString(<<"7">>)),
    RawOverride(nToken, nLocked, <<>>, RawRevert(<<"n","o">>)),
    RawOverride(nToken, nTotal, <<>>, RawString(<<"m","a","n","y">>)) >>

\* the eth_call requests of the clients of that contract
PairCalls == {dGet, dGetPair(1), dGetPair(2), dLocked, dTotal}

InitPair ==
    InitWith({PairRegistry}, {NoOverrideStore, OverrideStore(PairOverrides, PairRegistry)},
             {0, 1}, {NoRead}, {NoProxy})

NextPair ==
    \/ \E d \in {dSet(5), dSetPair(1, 5)} : SendTransaction(SENDER, ADDR_A, d)
    \/ MineBlock
    \/ \E d \in PairCalls : Call(ADDR_A, d)

SpecPair == InitPair /\ [][NextPair]_vars

\* the inputs of an event and the named arguments of a function, after the
\* Transfer event and the transfer functions of the events tests: sender and
\* recipient under every name the code knows, an input no argument is named
\* after, an unnamed input, names that differ in letter case only
EventInputs == {
    Param(<<"f","r","o","m">>, tAddress, TRUE),
    Param(<<"S","e","n","d","e","r">>, tAddress, FALSE),
    Param(<<"t","o">>, tAddress, TRUE),
    Param(<<"a","m","o","u","n","t">>, tUint256, FALSE),
    Param(nValue, tUint256, FALSE),
    Param(<<"m","e","m","o">>, tUint256, TRUE),
    Param(<<>>, tUint256, FALSE)}

NamedArgument(name, value) == [name |-> name, value |-> value]

NamedArguments == {
    NamedArgument(<<"f","r","o","m">>, StringV(ADDR_B)),
    NamedArgument(<<"T","o">>, StringV(ADDR_A)),
    NamedArgument(<<"r","e","c","i","p","i","e","n","t">>, StringV(ADDR_A_UPPER)),
    NamedArgument(<<"d","s","t">>, StringV(UNKNOWN_ADDRESS)),
    NamedArgument(<<"A","m","o","u","n","t">>, BigIntV(11)),
    NamedArgument(nValue, BigIntV(12)),
    NamedArgument(<<"w","a","d">>, BigIntV(13))}

\* the parameters of a function: none, one or two of the named arguments
ArgumentLists ==
    {<<>>} \cup {<<a>> : a \in NamedArguments}
           \cup {p \in {<<a, b>> : a \in NamedArguments, b \in NamedArguments} :
                     p[1] # p[2]}

\* the calls of generateEventLog: an event of two inputs, the names of the
\* function's inputs and all of its arguments or all but the last
EventLogInputs ==
    {[fn |-> "generateEventLog", event |-> AbiEvent(<<"T","r","a","n","s","f","e","r">>, <<p[1], p[2]>>),
      txFrom |-> SENDER,
      functionArgs |-> [i \in 1..c[2] |-> c[1][i].value],
      functionInputNames |-> [i \in 1..Len(c[1]) |-> c[1][i].name]] :
        p \in {x \in EventInputs \X EventInputs : x[1] # x[2]},
        c \in {x \in ArgumentLists \X {0, 1, 2} :
                  x[2] \in {Len(x[1]), Len(x[1]) - 1}}}

\* a call of a function of the library that is yet to be made
Pending(input) == [op |-> "input", input |-> input, output |-> <<>>]

\* generateEventLog applied to the input
GenerateEventLog ==
    /\ read.op = "input"
    /\ read.input.fn = "generateEventLog"
    /\ read' = [op |-> "generateEventLog", input |-> read.input,
                output |-> generateEventLog(read.input.event, ADDR_A, read.input.txFrom,
                                            read.input.functionArgs,
                                            read.input.functionInputNames)]
    /\ UNCHANGED <<proxy, registry, overrides, blockTime, blocks, mempool, state, txNonce,
                   miningInterval, receipts, sent>>

\* the event synthesis on its own, applied to each of the inputs
InitEvents ==
    InitWith({InitialRegistry}, {NoOverrideStore}, {0}, {Pending(input) : input \in EventLogInputs}, {NoProxy})

NextEvents == GenerateEventLog

SpecEvents == InitEvents /\ [][NextEvents]_vars

\* an overrides section with entries for given arguments and for any, a
\* function with the one kind only, literals with spaces, an upper-case
\* address and a boolean, and a target given by address
LookupOverrides == <<
    RawOverride(nToken, nGetN, <<"1">>, RawString(<<"9">>)),
    RawOverride(nToken, nGetN, <<>>, RawString(<<"8">>)),
    RawOverride(nToken, nN, <<"1">>, RawString(<<"9">>)),
    RawOverride(nOther, <<"p","a","i","r">>,
                <<" ">> \o ADDR_A_UPPER \o <<" ",","," ","t","r","u","e">>,
                RawString(<<"7">>)),
    RawOverride(ADDR_A_UPPER, nGet, <<>>, RawRevert(<<"n","o">>)) >>

\* the lookups the engine can make: any address, the functions of the
\* section and one more, no args parameter, no argument, and arguments that
\* match a literal, match none, or match but for a boolean
LookupInputs ==
    {[fn |-> "OverrideStore.get", address |-> address, functionName |-> functionName,
      hasArgs |-> a[1], args |-> a[2]] :
        address \in CallTargets,
        functionName \in {nGetN, nN, nGet, nSet, <<"p","a","i","r">>},
        a \in {<<FALSE, <<>>>>, <<TRUE, <<>>>>, <<TRUE, <<BigIntV(1)>>>>,
               <<TRUE, <<BigIntV(2)>>>>,
               <<TRUE, <<StringV(checksumAddress(slice(ADDR_A, 2))), BooleanV(TRUE)>>>>,
               <<TRUE, <<StringV(ADDR_A), BooleanV(FALSE)>>>>}}

\* has and get of the override store applied to the input, as call applies
\* them (src/unnamed/part_006, lines 367-368)
OverrideLookup ==
    /\ read.op = "input"
    /\ read.input.fn = "OverrideStore.get"
    /\ read' = [op |-> "OverrideStore.get", input |-> read.input,
                output |-> [has |-> overrideHas(overrides, read.input.address,
                                                read.input.functionName,
                                                read.input.hasArgs, read.input.args),
                            get |-> overrideGet(overrides, read.input.address,
                                                read.input.functionName,
                                                read.input.hasArgs, read.input.args)]]
    /\ UNCHANGED <<proxy, registry, overrides, blockTime, blocks, mempool, state, txNonce,
                   miningInterval, receipts, sent>>

\* the override store on its own, applied to each of the lookups
InitLookup ==
    InitWith({InitialRegistry}, {OverrideStore(LookupOverrides, InitialRegistry)}, {0},
             {Pending(input) : input \in LookupInputs}, {NoProxy})

NextLookup == OverrideLookup

SpecLookup == InitLookup /\ [][NextLookup]_vars

\* function names: the setter and getter prefixes in either letter case, a
\* part of a prefix, a prefix inside the name, followed by nothing, one
\* letter, several words, or the rest of an ordinary word (settings, getter)
FunctionNames ==
    {prefix \o rest :
        prefix \in {<<>>,
                    <<"s","e","t">>,
                    <<"g","e","t">>,
                    <<"S","e","t">>,
                    <<"G","E","T">>,
                    <<"s","e">>,
                    <<"r","e","s","e","t">>},
        rest \in {<<>>,
                  <<"F">>,
                  <<"f">>,
                  <<"F","o","o">>,
                  <<"f","O","O">>,
                  <<"F","o","o","B","a","r">>,
                  <<"t","i","n","g","s">>,
                  <<"t","e","r">>,
                  <<"N">>,
                  <<"_","x">>,
                  <<"S","e","t">>,
                  <<"g","e","t">>}}

\* normalizeFnName applied to the input, as makeKey applies it
NormalizeFnName ==
    /\ read.op = "input"
    /\ read.input.fn = "normalizeFnName"
    /\ read' = [op |-> "normalizeFnName", input |-> read.input,
                output |-> [name |-> normalizeFnName(read.input.name)]]
    /\ UNCHANGED <<proxy, registry, overrides, blockTime, blocks, mempool, state, txNonce,
                   miningInterval, receipts, sent>>

\* the name normalization on its own, applied to each of the names
InitNames ==
    InitWith({InitialRegistry}, {NoOverrideStore}, {0},
             {Pending([fn |-> "normalizeFnName", name |-> name]) : name \in FunctionNames},
             {NoProxy})

NextNames == NormalizeFnName

SpecNames == InitNames /\ [][NextNames]_vars

\* the engine under transactions of no, one and two arguments (get, set,
\* setN), undecodable ones and one for an unregistered address
NextStore ==
    \/ \E r \in {TxRequest(SENDER, ADDR_A, d) : d \in {dGet, dSet(5), dSetN(1, 5), dSetN(2, 7),
                                                     dMalformed}}
                \cup {TxRequest(SENDER, ADDR_B, dSetN(1, 7)),
                      TxRequest(SENDER, UNKNOWN_ADDRESS, dSet(7))} :
          SendTransaction(r.from, r.to, r.data)
    \/ MineBlock

SpecStore == Init /\ [][NextStore]_vars

\* the events of the events tests (Transfer, ValueSet, ScoreUpdated,
\* PlayerChanged, Approval) and three more: one that ends with the name of
\* another, one that is the base name of a setter, one with set inside
EventNames == {
    <<"T","r","a","n","s","f","e","r">>,
    <<"B","a","t","c","h","T","r","a","n","s","f","e","r">>,
    <<"V","a","l","u","e","S","e","t">>,
    <<"S","c","o","r","e","U","p","d","a","t","e","d">>,
    <<"S","c","o","r","e">>,
    <<"P","l","a","y","e","r","C","h","a","n","g","e","d">>,
    <<"A","p","p","r","o","v","a","l">>,
    <<"R","e","s","e","t","t","l","e">>}

\* the functions of the events tests, in either letter case
EventFunctionNames == {
    <<"t","r","a","n","s","f","e","r">>,
    <<"T","R","A","N","S","F","E","R">>,
    <<"s","e","t">>,
    <<"s","e","t","S","c","o","r","e">>,
    <<"S","e","t","S","c","o","r","e">>,
    <<"s","e","t","P","l","a","y","e","r">>,
    <<"a","p","p","r","o","v","e">>}

\* an ABI of one function and one or two events
EventAbi(functionName, eventNames) ==
    <<AbiFunction(functionName, <<Param(nValue, tUint256, FALSE)>>, <<>>)>>
    \o [i \in 1..Len(eventNames) |->
           AbiEvent(eventNames[i], <<Param(nValue, tUint256, FALSE)>>)]

\* the registries with one contract of such an ABI
EventRegistries ==
    {register(<<>>, ADDR_A, nToken, EventAbi(functionName, eventNames)) :
        functionName \in EventFunctionNames,
        eventNames \in {<<a>> : a \in EventNames}
                       \cup {p \in EventNames \X EventNames : p[1] # p[2]}}

\* findMatchingEvents applied to the ABI of the contract and the name of its
\* function, as executeTransaction applies it (src/unnamed/part_006, lines
\* 297-300)
FindMatchingEvents ==
    /\ read' = [op |-> "findMatchingEvents",
                input |-> [abi |-> registry[1].abi, functionName |-> registry[1].abi[1].name],
                output |-> [events |-> findMatchingEvents(registry[1].abi,
                                                          registry[1].abi[1].name)]]
    /\ UNCHANGED <<proxy, registry, overrides, blockTime, blocks, mempool, state, txNonce,
                   miningInterval, receipts, sent>>

\* the engine around a contract of each of the ABIs: its function is called
\* in transactions, which are mined at once or by a later round
InitMatching ==
    InitWith(EventRegistries, {NoOverrideStore}, {0, 1}, {NoRead}, {NoProxy})

NextMatching ==
    \/ FindMatchingEvents
    \/ SendTransaction(SENDER, ADDR_A,
                       Calldata(registry[1].abi[1].name, <<tUint256>>, <<5>>))
    \/ MineBlock

SpecMatching == InitMatching /\ [][NextMatching]_vars

\* the engine under hot reloads of the contracts between the submissions
\* (of set to either contract) and the mining rounds: a reload drops the
\* contract Other or brings it back
NextPending ==
    \/ \E to \in {ADDR_A, ADDR_B} : SendTransaction(SENDER, to, dSet(7))
    \/ MineBlock
    \/ \E input \in RegistryInputs : ReloadRegistry(input)

InitPending == InitWith({InitialRegistry}, {NoOverrideStore}, {0, 1}, {NoRead}, {NoProxy})

SpecPending == InitPending /\ [][NextPending]_vars

\* the server in interval mode once startServer has called startMining
\* (src/server.ts, line 199): the timer is armed and nothing stops it
InitStarted ==
    /\ registry = InitialRegistry
    /\ overrides \in OverrideInputs
    /\ blockTime = 1
    /\ blocks = <<GenesisBlock>>
    /\ mempool = <<>>
    /\ state = [x \in {} |-> <<>>]
    /\ txNonce = 0
    /\ miningInterval = TRUE
    /\ receipts = [x \in {} |-> NoReceipt]
    /\ sent = NotSent
    /\ read = NoRead
    /\ proxy = NoProxy

\* submissions, direct calls of mineBlock (evm_mine) and ticks of the timer,
\* in any order
NextFair ==
    \/ \E r \in {TxRequest(SENDER, ADDR_A, dSet(5)), TxRequest(SENDER, ADDR_B, dSet(7)),
                 TxRequest(SENDER, UNKNOWN_ADDRESS, dSet(7)),
                 TxRequest(SENDER, ADDR_A, dMalformed)} :
          SendTransaction(r.from, r.to, r.data)
    \/ MineBlock
    \/ Tick

\* the states in which the callback can run, ENABLED <<Tick>>_vars as a
\* predicate of the state: the timer is armed and the round is not held back
\* (a round always appends a block, so it always changes vars)
TickEnabled ==
    /\ miningInterval
    /\ mempool = <<>> => Len(blocks) <= MaxBlocks

\* the event loop runs the callback of an armed timer every period: a tick
\* that stays possible happens. This is WF_vars(Tick) by its definition,
\* []<>~ENABLED <<Tick>>_vars \/ []<><<Tick>>_vars
TickFairness == []<>(~TickEnabled) \/ []<><<Tick>>_vars

SpecFair == InitStarted /\ [][NextFair]_vars /\ TickFairness

\* what populateRegistry can be given: the ABI files of the directory, under
\* distinct names in any order, and up to two pinned entries of the config
\* under distinct addresses, two of them addresses generateAddress makes;
\* the ABI of a pinned entry loads or not
nThird == <<"T","h","i","r","d">>

FileLists ==
    LET names == {nToken, nOther, nThird}
    IN {<<>>}
       \cup {<<AbiFile(a, TokenAbi)>> : a \in names}
       \cup {<<AbiFile(p[1], TokenAbi), AbiFile(p[2], TokenAbi)>> :
                p \in {x \in names \X names : x[1] # x[2]}}
       \cup {<<AbiFile(p[1], TokenAbi), AbiFile(p[2], TokenAbi), AbiFile(p[3], TokenAbi)>> :
                p \in {x \in names \X names \X names :
                          x[1] # x[2] /\ x[1] # x[3] /\ x[2] # x[3]}}

Pins ==
    {ConfigContract(address, name, TokenAbi, loaded) :
        address \in {generateAddress(0), generateAddress(1), ADDR_A},
        name \in {nToken, nOther}, loaded \in BOOLEAN}

PinLists ==
    {<<>>} \cup {<<p>> : p \in Pins}
           \cup {<<p[1], p[2]>> : p \in {x \in Pins \X Pins : x[1].address # x[2].address}}

PopulateInputs ==
    {[abiFiles |-> files, configContracts |-> pins] : files \in FileLists, pins \in PinLists}

\* buildRegistry: populateRegistry on the empty registry
PopulateRegistry ==
    /\ read.op = "input"
    /\ registry' = populateRegistry(registry, read.input.abiFiles, read.input.configContracts)
    /\ read' = [op |-> "populateRegistry", input |-> read.input, output |-> <<>>]
    /\ UNCHANGED <<proxy, overrides, blockTime, blocks, mempool, state, txNonce,
                   miningInterval, receipts, sent>>

InitPopulate ==
    InitWith({<<>>}, {NoOverrideStore}, {0}, {Pending(input) : input \in PopulateInputs},
             {NoProxy})

NextPopulate == PopulateRegistry

SpecPopulate == InitPopulate /\ [][NextPopulate]_vars

\* the handler, with and without a proxy, in front of the engine with the
\* overrides of the configuration
InitRpc ==
    InitWith({InitialRegistry}, {OverrideStore(RawOverrides, InitialRegistry)}, {0, 1},
             {NoRead}, {NoProxy, ProxyClient})

NextRpc ==
    \/ \E c \in RpcCalls : EthCall(c[1], c[2])
    \/ \E r \in RpcSends : EthSendTransaction(r[1], r[2], r[3])
    \/ \E method \in RpcMethods : HandleRpcRequest(method)
    \/ MineBlock

SpecRpc == InitRpc /\ [][NextRpc]_vars

(***************************************************************************)
(* Properties of the ledger, the mempool and the receipts                  *)
(***************************************************************************)
\* the hashes of the transactions of a sequence
hashesOf(txs) == {txs[i].hash : i \in 1..Len(txs)}

\* the block a step appended, when it appended one
Mined == Len(blocks') > Len(blocks)
NewBlock == blocks'[Len(blocks')]

\* a step that is a call of sendTransaction
Submitted == txNonce' # txNonce

\* C1: block 0 is the genesis block, with no transactions and the all-zero
\* parent hash; every later block's number is its index in the ledger (one
\* more than its parent's) and its parentHash is the hash of the block
\* before it.
C1_LedgerChain ==
    /\ blocks[1].number = 0
    /\ blocks[1].transactions = <<>>
    /\ blocks[1].parentHash = GENESIS_HASH
    /\ \A i \in 2..Len(blocks) :
        /\ blocks[i].number = i - 1
        /\ blocks[i].number = blocks[i - 1].number + 1
        /\ blocks[i].parentHash = blocks[i - 1].hash

\* two blocks were mined on top of the genesis block, one with a transaction
C1_Witness ==
    /\ Len(blocks) = 3
    /\ \E i \in 2..3 : blocks[i].transactions # <<>>

\* C2: a mining round takes the whole mempool: after it the mempool is
\* empty and the new block holds exactly the transactions that were
\* pending (in instant mode: the one just submitted), in submission order.
C2_MineDrainsMempool ==
    [][Mined =>
        /\ Len(blocks') = Len(blocks) + 1
        /\ mempool' = <<>>
        /\ IF Submitted
           THEN /\ Len(NewBlock.transactions) = Len(mempool) + 1
                /\ SubSeq(NewBlock.transactions, 1, Len(mempool)) = mempool
                /\ NewBlock.transactions[Len(mempool) + 1].hash = sent'.hash
           ELSE NewBlock.transactions = mempool
        /\ \A i, j \in 1..Len(NewBlock.transactions) :
              i < j => NewBlock.transactions[i].nonce < NewBlock.transactions[j].nonce]_vars

\* a block was mined from a mempool that held two transactions
C2_Witness ==
    /\ Len(latestBlock.transactions) = 2
    /\ mempool = <<>>

\* hashes nobody was given: those of the nonces not yet used
NeverSubmitted == {generateTxHash(n) : n \in txNonce..(txNonce + 2)}

\* the blocks that hold the transaction of the hash
blocksHolding(hash) == {b \in 1..Len(blocks) : hash \in hashesOf(blocks[b].transactions)}

\* C3: in interval mode a submitted transaction has no receipt and is
\* pending until a block is mined; once mined it is not pending and its
\* receipt exists, names the block that mined it and has status success.
\* A hash that was never submitted has no receipt.
C3_IntervalLifecycle ==
    blockTime > 0 =>
        /\ \A n \in 0..(txNonce - 1) :
              LET hash == generateTxHash(n)
              IN IF isPending(hash)
                 THEN /\ getTransactionReceipt(hash) = NoReceipt
                      /\ blocksHolding(hash) = {}
                 ELSE /\ Cardinality(blocksHolding(hash)) = 1
                      /\ getTransactionReceipt(hash) # NoReceipt
                      /\ \A b \in blocksHolding(hash) :
                            getTransactionReceipt(hash).blockNumber = blocks[b].number
                      /\ getTransactionReceipt(hash).status = "0x1"
        /\ \A i \in 1..Len(mempool) : mempool[i].nonce < txNonce
        /\ \A hash \in NeverSubmitted :
              getTransactionReceipt(hash) = NoReceipt /\ ~isPending(hash)

\* interval mode with one transaction mined and another still pending
C3_Witness ==
    /\ blockTime > 0
    /\ mempool # <<>>
    /\ \E b \in 2..Len(blocks) : blocks[b].transactions # <<>>

\* C4: a mining round stores exactly one receipt for each transaction that
\* was pending, and no step (mining, a submission, a change of overrides,
\* a reload of the contracts) replaces, changes or removes a receipt that
\* is stored.
C4_ReceiptsImmutable ==
    [][/\ \A hash \in DOMAIN receipts :
             hash \in DOMAIN receipts' /\ receipts'[hash] = receipts[hash]
       /\ IF Mined
          THEN /\ DOMAIN receipts' \ DOMAIN receipts = hashesOf(NewBlock.transactions)
               /\ Cardinality(hashesOf(NewBlock.transactions)) = Len(NewBlock.transactions)
               /\ Len(NewBlock.receipts) = Len(NewBlock.transactions)
               /\ \A i \in 1..Len(NewBlock.transactions) :
                     /\ NewBlock.receipts[i] = receipts'[NewBlock.transactions[i].hash]
                     /\ NewBlock.receipts[i].transactionHash = NewBlock.transactions[i].hash
                     /\ NewBlock.receipts[i].transactionIndex = i - 1
          ELSE DOMAIN receipts' = DOMAIN receipts]_vars

\* receipts of two mining rounds are stored and the contracts were reloaded
\* to a registry without the contract Other
C4_Witness ==
    /\ Len(blocks) = 3
    /\ Cardinality(DOMAIN receipts) = 2
    /\ \A i \in 2..3 : Len(blocks[i].transactions) = 1
    /\ Len(registry) = 1

\* C5: in instant mode, when sendTransaction returns the mempool is empty,
\* the block number is one higher, the new block holds exactly the
\* submitted transaction and that transaction has a receipt.
C5_InstantMining ==
    [][(blockTime = 0 /\ Submitted) =>
        /\ mempool' = <<>>
        /\ Len(blocks') = Len(blocks) + 1
        /\ NewBlock.number = blockNumber + 1
        /\ Len(NewBlock.transactions) = 1
        /\ NewBlock.transactions[1].hash = sent'.hash
        /\ sent'.hash \in DOMAIN receipts'
        /\ receipts'[sent'.hash].blockNumber = NewBlock.number]_vars

\* instant mode after two submissions: two blocks of one transaction each
C5_Witness ==
    /\ blockTime = 0
    /\ txNonce = 2
    /\ Len(blocks) = 3
    /\ \A i \in 2..3 : Len(blocks[i].transactions) = 1

(***************************************************************************)
(* Properties of the state store and of reads                              *)
(***************************************************************************)
\* "0x" and the 32-byte word of a uint256
encodedUint256(v) == Prefix0x(padStart(toString16(v), HashHexLen))

\* the getter calls the naming convention pairs with a setter call: get()
\* with set(v); getN(k) and the bare n(k) with setN(k, v); the bare
\* settings() with setSettings(v)
GettersOf(data) ==
    IF data.selector = Selector(nSet, <<tUint256>>) /\ Len(data.words) = 1 THEN {dGet}
    ELSE IF data.selector = Selector(nSetSettings, <<tUint256>>) /\ Len(data.words) = 1
         THEN {dSettings}
    ELSE IF data.selector = Selector(nSetN, <<tUint256, tUint256>>) /\ Len(data.words) = 2
         THEN {dGetN(data.words[1]), dN(data.words[1])}
    ELSE {}

\* the value a setter call writes: its last argument
WrittenValue(data) == data.words[Len(data.words)]

\* two setter transactions write the same bucket of the same contract
SameBucket(t1, t2) ==
    /\ toLowerCase(t1.to) = toLowerCase(t2.to)
    /\ t1.data.selector = t2.data.selector
    /\ SubSeq(t1.data.words, 1, Len(t1.data.words) - 1)
         = SubSeq(t2.data.words, 1, Len(t2.data.words) - 1)

\* positions of the transactions of a sequence that no later one overwrites
LastWrites(txs) ==
    {i \in 1..Len(txs) : \A j \in (i + 1)..Len(txs) : ~SameBucket(txs[i], txs[j])}

\* the spellings of a transaction's target among the addresses clients read
SameContract(tx) == {to \in CallTargets : toLowerCase(to) = toLowerCase(tx.to)}

RECURSIVE flattenTransactions(_, _)
flattenTransactions(ledger, i) ==
    IF i > Len(ledger) THEN <<>>
    ELSE ledger[i].transactions \o flattenTransactions(ledger, i + 1)

\* all mined transactions in the order they were executed
MinedTransactions == flattenTransactions(blocks, 1)

\* C6: a write is visible to reads only once its block is mined: a step
\* that mines nothing leaves the store alone, an interval-mode submission
\* leaves the result of every call what it was, and after the mining round
\* the getters of each setter it executed (on a registered contract, with
\* no overrides configured) return the written value.
C6_WriteVisibleWhenMined ==
    [][/\ ~Mined => state' = state
       /\ (Submitted /\ blockTime > 0) =>
             \A to \in CallTargets : \A d \in CallData :
                 callOn(registry', overrides', state', to, d) = call(to, d)
       /\ (Mined /\ ~overrides'.defined) =>
             \A i \in LastWrites(NewBlock.transactions) :
                 LET tx == NewBlock.transactions[i]
                 IN isRegistered(registry', tx.to) =>
                      \A to \in SameContract(tx) : \A g \in GettersOf(tx.data) :
                          callOn(registry', overrides', state', to, g)
                              = Returned(encodedUint256(WrittenValue(tx.data)))]_vars

\* C7: with no overrides configured, after a setter setN(k, v) on a
\* registered contract was mined, getN(k) and the bare getter n(k) on that
\* contract return exactly v (the last value written for k); likewise
\* get() after set(v).
C7_StateRoundTrip ==
    ~overrides.defined =>
        \A i \in LastWrites(MinedTransactions) :
            LET tx == MinedTransactions[i]
            IN isKnownContract(tx.to) =>
                 \A to \in SameContract(tx) : \A g \in GettersOf(tx.data) :
                     /\ call(to, g).status = "ok"
                     /\ call(to, g).result = encodedUint256(WrittenValue(tx.data))

\* the result the precedence argument-specific override > generic override
\* > stored state > default gives for a call
resolvedByPrecedence(to, data) ==
    LET contract == registryGet(registry, to)
        decoded == decodeFunctionData(contract.abi, data)
        abiFunc == getAbiFunction(contract.abi, decoded.functionName)
        ak == argKey(to, decoded.functionName, argsToString(decoded.args))
        gk == genericKey(to, decoded.functionName)
        stored == storeGet(state, to, decoded.functionName, decoded.args)
    IN IF overrides.defined /\ Len(decoded.args) > 0 /\ ak \in DOMAIN overrides.argOverrides
       THEN applyOverride(overrides.argOverrides[ak], abiFunc)
       ELSE IF overrides.defined /\ gk \in DOMAIN overrides.overrides
       THEN applyOverride(overrides.overrides[gk], abiFunc)
       ELSE IF stored.found
       THEN Returned(encodeAbiParameters(abiFunc.outputs, stored.values).hex)
       ELSE Returned(encodeAbiParameters(abiFunc.outputs,
                                         generateDefaultValues(abiFunc.outputs)).hex)

\* C8: for every call of a function with outputs on a registered contract,
\* the result is the one the precedence gives: the argument-specific
\* override for (contract, function, arguments) if there is one, else the
\* generic override for (contract, function), else the stored state, else
\* the default.
C8_CallPrecedence ==
    \A to \in CallTargets : \A d \in CallData :
        LET contract == registryGet(registry, to)
            decoded == decodeFunctionData(contract.abi, d)
        IN (/\ contract # NoContract
            /\ decoded.ok
            /\ Len(getAbiFunction(contract.abi, decoded.functionName).outputs) > 0)
           => call(to, d) = resolvedByPrecedence(to, d)

\* C9: an operation on an address that is not registered fails with the
\* unknown-contract error: every call of it throws UnknownContractError
\* and no sendTransaction to it returns a hash.
C9_UnknownContractFails ==
    /\ \A to \in CallTargets : \A d \in CallData :
          ~isKnownContract(to) => call(to, d).status = "UnknownContractError"
    /\ sent.status = "returned" => isKnownContract(sent.to)

\* C10: in every block the logIndex values of the logs, in transaction
\* order and then in emission order, are 0, 1, 2, ... across the whole
\* block.
C10_LogIndexAcrossBlock ==
    \A b \in 1..Len(blocks) :
        \A i \in 1..Len(blockLogs(blocks[b])) : blockLogs(blocks[b])[i].logIndex = i - 1

(***************************************************************************)
(* Properties of error handling, frames and log queries                    *)
(***************************************************************************)
\* the target of the transaction is registered and its calldata matches no
\* function of the target's ABI
Undecodable(reg, tx) ==
    /\ isRegistered(reg, tx.to)
    /\ ~decodeFunctionData(registryGet(reg, tx.to).abi, tx.data).ok

\* the transactions of a sequence without the undecodable ones
DecodableOnly(reg, txs) ==
    LET Keep(tx) == ~Undecodable(reg, tx)
    IN SelectSeq(txs, Keep)

\* C11: submitting a transaction whose calldata does not decode against
\* the target's ABI returns a hash like any other; when it is mined it gets
\* a receipt with status 0x1 and no logs, and the store after the mining
\* round is the one the round would leave had the undecodable transactions
\* not been in the block.
C11_UndecodableTransaction ==
    [][/\ Submitted =>
             /\ sent'.status = "returned"
             /\ sent'.hash \in hashesOf(mempool') \cup DOMAIN receipts'
       /\ Mined =>
             /\ \A i \in 1..Len(NewBlock.transactions) :
                   Undecodable(registry, NewBlock.transactions[i]) =>
                       /\ NewBlock.receipts[i].status = "0x1"
                       /\ NewBlock.receipts[i].logs = <<>>
                       /\ receipts'[NewBlock.transactions[i].hash] = NewBlock.receipts[i]
             /\ state' = mineBlock(registry, blocks,
                                   DecodableOnly(registry, NewBlock.transactions),
                                   state, receipts).state]_vars

\* a block holds an undecodable transaction next to a setter that wrote
C11_Witness ==
    \E b \in 2..Len(blocks) :
        /\ Len(blocks[b].transactions) = 2
        /\ \E i \in 1..2 : Undecodable(registry, blocks[b].transactions[i])
        /\ \E i \in 1..2 : blocks[b].receipts[i].logs # <<>>
        /\ DOMAIN state # {}

\* no function of the ABI has the selector of the calldata
MatchesNoFunction(abi, data) ==
    \A i \in 1..Len(abi) : abi[i].type = "function" => selectorOf(abi[i]) # data.selector

CallsRevertOverride(tx) ==
    /\ overrides.defined
    /\ tx.functionName # <<>>
    /\ overrideGet(overrides, tx.to, tx.functionName, TRUE, tx.args).type = "revert"

C14_HotReloadFrame ==
    [][(registry' # registry \/ overrides' # overrides) =>
          /\ blocks' = blocks
          /\ mempool' = mempool
          /\ receipts' = receipts
          /\ txNonce' = txNonce]_vars

\* the registry was reloaded without the contract Other while a decoded
\* transaction to it was pending, after a block with a receipt was mined
C14_Witness ==
    /\ Len(registry) = 1
    /\ overrides.defined
    /\ Len(blocks) > 1
    /\ DOMAIN receipts # {}
    /\ \E i \in 1..Len(mempool) :
          toLowerCase(mempool[i].to) = ADDR_B /\ mempool[i].functionName # <<>>

\* C15: a step in which a read operation (call, getBlock, getLogs,
\* getTransactionReceipt, isPending) hands back a result or an error leaves
\* the block ledger, the mempool, the state store, the receipts and the
\* nonce counter as they were.
C15_ReadsChangeNothing ==
    [][read' # read =>
          /\ read'.op \in {"call", "getBlock", "getLogs", "getTransactionReceipt", "isPending"}
          /\ blocks' = blocks
          /\ mempool' = mempool
          /\ state' = state
          /\ receipts' = receipts
          /\ txNonce' = txNonce]_vars

\* getBlock("pending") listed a pending transaction, which is still in the
\* mempool, after a block that wrote the store was mined
C15_Witness ==
    /\ read.op = "getBlock"
    /\ read.input = BlockTag("pending")
    /\ read.output.transactions # <<>>
    /\ read.output.transactions = mempool
    /\ DOMAIN state # {}
    /\ DOMAIN receipts # {}

\* the mined transactions sent to the address, in any letter case
MinedTo(to) ==
    LET Keep(tx) == toLowerCase(tx.to) = toLowerCase(to)
    IN SelectSeq(MinedTransactions, Keep)

\* the store an engine would hold had it executed only the transactions of
\* the sequence
StoreOf(txs) ==
    mineLoop(registry, txs, 0,
             [store |-> [x \in {} |-> <<>>], receipts |-> [x \in {} |-> NoReceipt],
              blockReceipts |-> <<>>],
             1, generateBlockHash(1)).store

\* C16: what a call on a registered contract returns is what it would
\* return had only the transactions sent to that contract been mined: no
\* write to another contract, of the same ABI, shows in it.  A contract
\* whose own transactions wrote nothing returns the default of every getter
\* when no overrides are configured.
C16_StateIsolation ==
    \A to \in {ADDR_A, ADDR_B} :
        LET own == StoreOf(MinedTo(to))
        IN \A g \in {dGet, dGetN(1), dN(1), dSettings} :
              /\ isKnownContract(to)
              /\ call(to, g) = callOn(registry, overrides, own, to, g)
              /\ (own = StoreOf(<<>>) /\ ~overrides.defined)
                    => call(to, g) = Returned(encodedUint256(1))

\* both contracts were written through set, with different values, and
\* each returns its own
C16_Witness ==
    /\ ~overrides.defined
    /\ MinedTo(ADDR_A) # <<>>
    /\ MinedTo(ADDR_B) # <<>>
    /\ call(ADDR_A, dGet) = Returned(encodedUint256(5))
    /\ call(ADDR_B, dGet) = Returned(encodedUint256(7))

\* the key arguments and the value of a decoded setter call (lines 284-293)
KeyArgsOf(tx) == SubSeq(tx.args, 1, Len(tx.args) - 1)
ValueOf(tx) == tx.args[Len(tx.args)]

\* the call reads the bucket the transaction wrote
ReadsBucketOf(tx, to, g) ==
    LET decoded == decodeFunctionData(registryGet(registry, to).abi, g)
    IN /\ decoded.ok
       /\ makeKey(to, decoded.functionName, decoded.args)
            = makeKey(tx.to, tx.functionName, KeyArgsOf(tx))

\* C17: the mined transactions are executed in submission order, and for
\* every bucket written by setters the store holds the value of the latest
\* of them in that order, whether they were mined in one block or in
\* several; with no overrides configured, every call that reads the bucket
\* returns that value.
C17_LastWriteWins ==
    /\ \A i, j \in 1..Len(MinedTransactions) :
          i < j => MinedTransactions[i].nonce < MinedTransactions[j].nonce
    /\ \A i \in LastWrites(MinedTransactions) :
          LET tx == MinedTransactions[i]
          IN (isKnownContract(tx.to) /\ Len(tx.args) > 0) =>
                /\ storeGet(state, tx.to, tx.functionName, KeyArgsOf(tx))
                     = [found |-> TRUE, values |-> <<ValueOf(tx)>>]
                /\ ~overrides.defined =>
                      \A to \in SameContract(tx) : \A g \in CallData :
                          ReadsBucketOf(tx, to, g) =>
                              call(to, g) = Returned(encodedUint256(WrittenValue(tx.data)))

\* set(5) and then set(7) were written to one contract in one block, and
\* get() returns 7
C17_Witness ==
    /\ ~overrides.defined
    /\ \E b \in 2..Len(blocks) :
          /\ Len(blocks[b].transactions) = 2
          /\ \A i \in 1..2 : Len(blocks[b].transactions[i].args) = 1
          /\ SameBucket(blocks[b].transactions[1], blocks[b].transactions[2])
          /\ WrittenValue(blocks[b].transactions[1].data) = 5
          /\ WrittenValue(blocks[b].transactions[2].data) = 7
    /\ call(ADDR_A, dGet) = Returned(encodedUint256(7))

RECURSIVE flattenBlocks(_, _)
flattenBlocks(ledger, i) ==
    IF i > Len(ledger) THEN <<>>
    ELSE blockLogs(ledger[i]) \o flattenBlocks(ledger, i + 1)

\* the logs of all mined blocks, in block order
MinedLogs == flattenBlocks(blocks, 1)

\* the log is one the filter asks for
Wanted(log, filter) ==
    /\ log.blockNumber >= (IF filter.fromBlock = <<>> THEN 0 ELSE filter.fromBlock[1])
    /\ log.blockNumber <= (IF filter.toBlock = <<>> THEN Len(blocks) - 1
                           ELSE filter.toBlock[1])
    /\ filter.address # <<>> => toLowerCase(log.address) = toLowerCase(filter.address[1])
    /\ \A t \in 1..Len(filter.topics) :
          filter.topics[t] # <<>> =>
              (t <= Len(log.topics) /\ log.topics[t] = filter.topics[t][1])

WantedLogs(filter) ==
    LET Keep(log) == Wanted(log, filter)
    IN SelectSeq(MinedLogs, Keep)

\* C18: getLogs(filter) returns, in block order, exactly the logs of the
\* mined blocks whose number lies in fromBlock..toBlock (0 and the latest
\* block when absent), whose address is the filter's address ignoring
\* letter case when one is given, and whose topic at every position with a
\* non-null entry equals the entry; a topic that no log has at its position
\* gives the empty result.
C18_GetLogsFilter ==
    \A filter \in LogFilters :
        /\ getLogs(filter) = WantedLogs(filter)
        /\ (\E t \in 1..Len(filter.topics) :
               /\ filter.topics[t] # <<>>
               /\ \A k \in 1..Len(MinedLogs) :
                     t > Len(MinedLogs[k].topics)
                        \/ MinedLogs[k].topics[t] # filter.topics[t][1])
              => getLogs(filter) = <<>>

\* two blocks hold logs of two contracts: the range 1..1 gives some but not
\* all logs, the upper-case address gives logs whose address is spelled in
\* lower case, and the null entry followed by the sender's topic gives logs
C18_Witness ==
    /\ getLogs(LogFilter(<<1>>, <<1>>, <<>>, <<>>)) # <<>>
    /\ Len(getLogs(LogFilter(<<1>>, <<1>>, <<>>, <<>>))) < Len(getLogs(LogFilter(<<>>, <<>>, <<>>, <<>>)))
    /\ \E k \in 1..Len(getLogs(LogFilter(<<>>, <<>>, <<ADDR_A_UPPER>>, <<>>))) :
          getLogs(LogFilter(<<>>, <<>>, <<ADDR_A_UPPER>>, <<>>))[k].address = ADDR_A
    /\ \E f \in LogFilters :
          /\ Len(f.topics) = 2
          /\ getLogs(f) # <<>>
          /\ Len(getLogs(f)) < Len(MinedLogs)

(***************************************************************************)
(* Properties of the mining loop                                           *)
(***************************************************************************)
\* C19: stopMining can always be called; it leaves the timer cancelled and
\* changes nothing else; called with no timer armed (a second time, or
\* without a startMining before) it changes nothing at all.  While the
\* timer is cancelled no block is mined, except by a submission in instant
\* mode.
C19_StopMining ==
    /\ [](ENABLED StopMining)
    /\ [](~miningInterval => ~ENABLED (StopMining /\ vars' # vars))
    /\ [](miningInterval => ~ENABLED (StopMining /\ miningInterval'))
    /\ [][(miningInterval /\ ~miningInterval') =>
             UNCHANGED <<registry, overrides, blockTime, blocks, mempool, state,
                         txNonce, receipts, sent, read>>]_vars
    /\ [][(~miningInterval /\ Mined) => (Submitted /\ blockTime = 0)]_vars

\* interval mode: the timer mined a block and was cancelled while a
\* transaction is pending
C19_Witness ==
    /\ blockTime > 0
    /\ ~miningInterval
    /\ Len(blocks) > 1
    /\ mempool # <<>>

\* what mineBlock would do now if nothing were pending
MinedEmpty == mineBlock(registry, blocks, <<>>, state, receipts)

\* C20: mineBlock with an empty mempool appends a block: in every state
\* it would give a ledger one block longer whose last block has the next
\* number, no transactions and no receipts; and every mining round that
\* finds the mempool empty raises blockNumber by exactly 1, appends such a
\* block and leaves the store and the receipts as they were.
C20_EmptyBlock ==
    /\ [](/\ Len(MinedEmpty.blocks) = Len(blocks) + 1
          /\ MinedEmpty.blocks[Len(blocks) + 1].number = blockNumber + 1
          /\ MinedEmpty.blocks[Len(blocks) + 1].transactions = <<>>
          /\ MinedEmpty.blocks[Len(blocks) + 1].receipts = <<>>)
    /\ [][(Mined /\ ~Submitted /\ mempool = <<>>) =>
             /\ Len(blocks') = Len(blocks) + 1
             /\ SubSeq(blocks', 1, Len(blocks)) = blocks
             /\ NewBlock.number = blockNumber + 1
             /\ NewBlock.transactions = <<>>
             /\ NewBlock.receipts = <<>>
             /\ mempool' = <<>>
             /\ receipts' = receipts
             /\ state' = state]_vars

\* an empty block was mined on top of a block that holds a transaction
C20_Witness ==
    /\ Len(blocks) = 3
    /\ blocks[2].transactions # <<>>
    /\ blocks[3].transactions = <<>>
    /\ blocks[3].receipts = <<>>
    /\ blocks[3].number = 2

(***************************************************************************)
(* Properties of the JSON-RPC handler and of the overrides                 *)
(***************************************************************************)
\* the function the calldata names in the ABI registered at to
CalledFunction(to, data) ==
    getAbiFunction(registryGet(registry, to).abi,
                   decodeFunctionData(registryGet(registry, to).abi, data).functionName)

\* a revert override is configured for the contract at to and the function
\* the calldata names, whatever the arguments
RevertConfigured(to, data) ==
    /\ isKnownContract(to)
    /\ decodeFunctionData(registryGet(registry, to).abi, data).ok
    /\ overrides.defined
    /\ overrideHas(overrides, to, CalledFunction(to, data).name, FALSE, <<>>)
    /\ overrideGet(overrides, to, CalledFunction(to, data).name, FALSE, <<>>).type = "revert"

\* call throws a RevertError with the configured reason, and the answer is
\* an error of code 3 whose message contains the reason
RevertReported(to, data, reason, answer) ==
    /\ call(to, data) = Thrown("RevertError", reason)
    /\ answer.error
    /\ answer.code = 3
    /\ includes(answer.message, reason)

\* the last request was an eth_call the handler answered itself
AnsweredCall ==
    /\ read.op = "rpc"
    /\ read.input.method = eth_call
    /\ proxy.defined => isKnownContract(read.input.params.to)

\* C21 as stated: with a revert override configured for the function of a
\* contract, call raises a RevertError carrying the configured reason and
\* eth_call answers with an error of code 3 whose message contains it,
\* whatever the function returns
C21_AsStated ==
    AnsweredCall /\ RevertConfigured(read.input.params.to, read.input.params.data)
    => RevertReported(read.input.params.to, read.input.params.data,
                      overrideGet(overrides, read.input.params.to,
                                  CalledFunction(read.input.params.to,
                                                 read.input.params.data).name,
                                  FALSE, <<>>).revertReason,
                      read.output)

\* C21: with a revert override configured for a function that declares at
\* least one output, call raises a RevertError carrying the configured reason
\* instead of returning a value, and eth_call answers with an error of code
\* 3 whose message contains that reason
C21_RevertOverride ==
    /\ AnsweredCall
    /\ RevertConfigured(read.input.params.to, read.input.params.data)
    /\ Len(CalledFunction(read.input.params.to, read.input.params.data).outputs) > 0
    => RevertReported(read.input.params.to, read.input.params.data,
                      overrideGet(overrides, read.input.params.to,
                                  CalledFunction(read.input.params.to,
                                                 read.input.params.data).name,
                                  FALSE, <<>>).revertReason,
                      read.output)

\* eth_call of get, which has a revert override, was answered with the error
C21_Witness ==
    /\ AnsweredCall
    /\ read.input.params = [to |-> ADDR_A, data |-> dGet]
    /\ RevertConfigured(ADDR_A, dGet)
    /\ read.output.error
    /\ read.output.code = 3
    /\ read.output.message = <<"e","x","e","c","u","t","i","o","n"," ","r","e","v","e","r","t","e","d",":"," ","n","o">>

\* the positions of the arguments a function was called with that bear the
\* name, compared without regard to letter case
ArgumentsNamed(name, functionArgs, functionInputNames) ==
    {j \in 1..Len(functionArgs) : /\ j <= Len(functionInputNames)
                                  /\ toLowerCase(functionInputNames[j]) = toLowerCase(name)}

\* the first of the aliases that names an argument, 0 when none does
FirstAlias(aliases, functionArgs, functionInputNames) ==
    IF \A k \in 1..Len(aliases) :
          ArgumentsNamed(aliases[k], functionArgs, functionInputNames) = {}
    THEN 0
    ELSE CHOOSE k \in 1..Len(aliases) :
            /\ ArgumentsNamed(aliases[k], functionArgs, functionInputNames) # {}
            /\ \A m \in 1..(k - 1) :
                  ArgumentsNamed(aliases[m], functionArgs, functionInputNames) = {}

\* the aliases of an event input: to, recipient, dst for to; amount, value,
\* wad for amount and value; none for another name
AliasesOf(name) ==
    IF name = <<"t","o">> THEN <<<<"t","o">>, <<"r","e","c","i","p","i","e","n","t">>, <<"d","s","t">>>>
    ELSE IF name \in {<<"a","m","o","u","n","t">>, nValue}
    THEN <<<<"a","m","o","u","n","t">>, nValue, <<"w","a","d">>>>
    ELSE <<>>

\* the value the priority of the claim gives one event input (the names of
\* the arguments differ, so at most one argument bears a name): the sender
\* for from and sender, else the argument of the same name, else the
\* argument of the first alias, else the default of the type
ValueByPriority(input, txFrom, functionArgs, functionInputNames, sameName, alias) ==
    IF toLowerCase(input.name) \in {<<"f","r","o","m">>, nSender} THEN StringV(txFrom)
    ELSE IF input.name # <<>> /\ sameName # {}
    THEN functionArgs[CHOOSE j \in sameName : TRUE]
    ELSE IF alias # 0
    THEN functionArgs[CHOOSE j \in ArgumentsNamed(AliasesOf(toLowerCase(input.name))[alias],
                                                  functionArgs, functionInputNames) : TRUE]
    ELSE generateDefaultValue(input)

\* the values the priority gives the inputs of an event
ValuesByPriority(inputs, txFrom, functionArgs, functionInputNames) ==
    [i \in 1..Len(inputs) |->
        ValueByPriority(inputs[i], txFrom, functionArgs, functionInputNames,
                        ArgumentsNamed(inputs[i].name, functionArgs, functionInputNames),
                        FirstAlias(AliasesOf(toLowerCase(inputs[i].name)),
                                   functionArgs, functionInputNames))]

\* the first topic of the logs of an event: the hash of its signature
TopicOf(event) ==
    keccak256(event.name \o <<"(">>
              \o joinComma([i \in 1..Len(event.inputs) |-> event.inputs[i].type], 1)
              \o <<")">>)

\* the log with the topics and the data of the values
LogOfValues(event, indexedValues, nonIndexedInputs, nonIndexedValues) ==
    [topics |-> <<TopicOf(event)>>
                \o [i \in 1..Len(indexedValues) |-> indexedTopic(indexedValues[i])],
     data |-> encodeAbiParameters(nonIndexedInputs, nonIndexedValues).hex]

\* the log of an event whose inputs were given the values
LogOf(event, values) ==
    LogOfValues(event, selectSeq(event.inputs, values, TRUE),
                selectSeq(event.inputs, event.inputs, FALSE),
                selectSeq(event.inputs, values, FALSE))

\* C22: the log generateEventLog makes carries, for each input of the event,
\* the value of the fixed priority: the transaction sender for an input
\* named from or sender, even when the function has an argument of that
\* name; else the argument of the same name (letter case aside); else the
\* argument of the first alias present (to, recipient, dst for to; amount,
\* value, wad for amount and value); else the default of the input's type
C22_EventValuePriority ==
    read.op = "generateEventLog" =>
        read.output = LogOf(read.input.event,
                            ValuesByPriority(read.input.event.inputs, read.input.txFrom,
                                             read.input.functionArgs,
                                             read.input.functionInputNames))

\* a log was made for Transfer(from, to) of a function with the arguments
\* from and recipient: from took the sender, to the recipient
C22_Witness ==
    /\ read.op = "generateEventLog"
    /\ read.input.functionInputNames = <<<<"f","r","o","m">>, <<"r","e","c","i","p","i","e","n","t">>>>
    /\ Len(read.input.functionArgs) = 2
    /\ read.input.event.inputs[1].name = <<"f","r","o","m">>
    /\ read.input.event.inputs[2].name = <<"t","o">>
    /\ read.output.topics[2] = Prefix0x(padStart(slice(SENDER, 2), HashHexLen))
    /\ read.output.topics[3] = Prefix0x(padStart(slice(ADDR_A_UPPER, 2), HashHexLen))
    /\ SENDER # ADDR_B

\* C23: with a proxy configured, a request for a method that has a local
\* handler (eth_call and eth_sendTransaction, which look at the target
\* first, aside) is answered by the local handler and the proxy is not
\* called
C23_LocalHandlersWin ==
    [][/\ proxy.defined
       /\ read' # read \/ proxy' # proxy
       /\ read'.op = "rpc"
       /\ read'.input.method \in LocalHandlers \ {eth_call, eth_sendTransaction}
       => /\ proxy' = proxy
          /\ read'.output = localResult(read'.input.method)]_vars

\* the request the proxy was given last
LastProxied(client) == client.calls[Len(client.calls)]

\* C24: with a proxy configured, an eth_call or eth_sendTransaction is
\* forwarded to the proxy only when its target is not registered, and then
\* nothing of the engine changes (no transaction is enqueued, no nonce is
\* used); one answered without the proxy has a registered target: the call
\* gets what Blockchain.call gives, the transaction enters the engine
C24_ProxyByTarget ==
    [][proxy.defined =>
        /\ proxy' # proxy /\ LastProxied(proxy').method \in {eth_call, eth_sendTransaction}
           => /\ ~isKnownContract(LastProxied(proxy').params.to)
              /\ read'.input = LastProxied(proxy')
              /\ UNCHANGED <<registry, blocks, mempool, state, txNonce, receipts, sent>>
        /\ proxy' = proxy /\ read' # read /\ read'.op = "rpc" /\ read'.input.method = eth_call
           => /\ isKnownContract(read'.input.params.to)
              /\ read'.output = callLocally(read'.input.params.to, read'.input.params.data)
        /\ txNonce' # txNonce
           => /\ isKnownContract(sent'.to)
              /\ proxy' = proxy]_vars

\* a transaction for an unregistered address went to the proxy and left the
\* engine untouched, and an eth_call of a registered contract was answered
\* by the engine afterwards
C24_Witness ==
    /\ proxy.defined
    /\ Len(proxy.calls) = 1
    /\ proxy.calls[1].method = eth_sendTransaction
    /\ proxy.calls[1].params.to = UNKNOWN_ADDRESS
    /\ txNonce = 0
    /\ mempool = <<>>
    /\ Len(blocks) = 1
    /\ read.op = "rpc"
    /\ read.input.method = eth_call
    /\ read.input.params.to = ADDR_A
    /\ ~read.output.error

(***************************************************************************)
(* Properties of the pending block, of call and of the stores              *)
(***************************************************************************)
\* C25: getBlock("pending") hands back a block whose number is the latest
\* number plus one, whose parentHash is the hash of the latest block and
\* whose transactions are the mempool's, in order; the ledger is as before,
\* so blockNumber is the same and getBlock(latest + 1) is null before and
\* after
C25_PendingBlock ==
    [][read' # read /\ read'.op = "getBlock" /\ read'.input = BlockTag("pending")
       => /\ read'.output.number = blockNumber + 1
          /\ read'.output.parentHash = latestBlock.hash
          /\ read'.output.transactions = mempool
          /\ blocks' = blocks
          /\ mempool' = mempool
          /\ getBlockOn(blocks', mempool', BlockTag("latest")) = latestBlock
          /\ getBlock(BlockAt(blockNumber + 1)) = NoBlock
          /\ getBlockOn(blocks', mempool', BlockAt(blockNumber + 1)) = NoBlock]_vars

\* after a block was mined, getBlock("pending") listed the one transaction
\* of the mempool under the next number, and that number is still free
C25_Witness ==
    /\ read.op = "getBlock"
    /\ read.input = BlockTag("pending")
    /\ Len(blocks) = 2
    /\ Len(mempool) = 1
    /\ read.output.number = 2
    /\ read.output.parentHash = blocks[2].hash
    /\ read.output.transactions = mempool
    /\ getBlock(BlockAt(2)) = NoBlock

\* C26: call of a registered contract with calldata whose selector matches
\* no function of the ABI throws an error
C26_MalformedCallThrows ==
    /\ read.op = "call"
    /\ isKnownContract(read.input.to)
    /\ ~decodeFunctionData(registryGet(registry, read.input.to).abi, read.input.data).ok
    => read.output.status # "ok"

\* the entries of an overrides section for the address and the function:
\* those with a list of literal arguments, or those without
EntriesFor(rawOverrides, address, functionName, withArgs) ==
    {i \in 1..Len(rawOverrides) :
        /\ toLowerCase(address) \in targetAddresses(rawOverrides[i].target, registry)
        /\ rawOverrides[i].functionName = functionName
        /\ (rawOverrides[i].argsString # <<>>) = withArgs}

\* of the entries, the one the section lists last, resolved; nothing when
\* there is none
LastEntry(rawOverrides, entries) ==
    IF entries = {} THEN NoOverride
    ELSE resolveOverrideValue(
             rawOverrides[CHOOSE i \in entries : \A j \in entries : j <= i].value)

\* the entry the section configures for a lookup: the one whose normalized
\* literal arguments are the normalized arguments of the call, else the one
\* without arguments, else nothing
ConfiguredEntry(rawOverrides, lookup, specific, generic) ==
    IF lookup.hasArgs /\ lookup.args # <<>>
       /\ \E i \in specific :
             normalizeArgs(rawOverrides[i].argsString) = argsToString(lookup.args)
    THEN LastEntry(rawOverrides,
                   {i \in specific : normalizeArgs(rawOverrides[i].argsString)
                                        = argsToString(lookup.args)})
    ELSE LastEntry(rawOverrides, generic)

\* C27: get hands back the argument-specific entry whose normalized literal
\* arguments equal the normalized arguments of the call (a bigint in
\* decimal, a 0x string in lower case, a boolean as true or false) when
\* there is one, else the generic entry of the address and the function,
\* else nothing; has is true exactly when get hands back an entry
C27_OverrideLookup ==
    read.op = "OverrideStore.get" =>
        /\ read.output.get =
              ConfiguredEntry(LookupOverrides, read.input,
                              EntriesFor(LookupOverrides, read.input.address,
                                         read.input.functionName, TRUE),
                              EntriesFor(LookupOverrides, read.input.address,
                                         read.input.functionName, FALSE))
        /\ read.output.has = (read.output.get # NoOverride)

\* getN(1) of the contract, addressed in upper case, got the entry for the
\* argument 1 although a generic entry exists
C27_Witness ==
    /\ read.op = "OverrideStore.get"
    /\ read.input.address = ADDR_A_UPPER
    /\ read.input.functionName = nGetN
    /\ read.input.args = <<BigIntV(1)>>
    /\ read.output.has
    /\ read.output.get.value = <<"9">>
    /\ genericKey(ADDR_A, nGetN) \in DOMAIN overrides.overrides

\* C28: the name normalization gives set and get the one name _default,
\* gives a name longer than three letters that starts with set or get what
\* follows the prefix, the first letter of it in lower case and the rest as
\* it is, and gives every other name the name itself
C28_NameNormalization ==
    read.op = "normalizeFnName" =>
        read.output.name =
            IF read.input.name \in {nSet, nGet} THEN n_default
            ELSE IF Len(read.input.name) > 3
                    /\ SubSeq(read.input.name, 1, 3) \in {nSet, nGet}
            THEN <<LowerChar(read.input.name[4])>>
                 \o SubSeq(read.input.name, 5, Len(read.input.name))
            ELSE read.input.name

\* setFooBar was given fooBar: the first letter in lower case, the rest kept
C28_Witness ==
    /\ read.op = "normalizeFnName"
    /\ read.input.name = <<"s","e","t","F","o","o","B","a","r">>
    /\ read.output.name = <<"f","o","o","B","a","r">>

\* the store with the one bucket of a decoded transaction of one argument
\* or more set to its last argument, every other bucket as it was; the
\* store itself for any other transaction
RECURSIVE WithBucketsOf(_, _, _)
WithBucketsOf(store, txs, i) ==
    IF i > Len(txs) THEN store
    ELSE IF isKnownContract(txs[i].to) /\ txs[i].functionName # <<>> /\ Len(txs[i].args) >= 1
    THEN WithBucketsOf(
             [x \in DOMAIN store \cup {makeKey(txs[i].to, txs[i].functionName, KeyArgsOf(txs[i]))} |->
                 IF x = makeKey(txs[i].to, txs[i].functionName, KeyArgsOf(txs[i]))
                 THEN <<ValueOf(txs[i])>> ELSE store[x]],
             txs, i + 1)
    ELSE WithBucketsOf(store, txs, i + 1)

\* C29: the execution of a decoded transaction of n >= 1 arguments writes
\* one bucket of the target contract, keyed by the first n - 1 arguments
\* (by none when n = 1), with the last argument as its value, and leaves
\* every other bucket as it was; the execution of a decoded transaction
\* without arguments, like that of any other transaction, leaves the store
\* as it was.  A block's transactions are executed one after the other.
C29_OneBucketPerTransaction ==
    [][IF Mined THEN state' = WithBucketsOf(state, NewBlock.transactions, 1)
       ELSE state' = state]_vars

\* setN(1, 5) was mined on top of a store that held the bucket of set: the
\* store holds that bucket still and the bucket of setN under the key 1,
\* and no other
C29_Witness ==
    /\ Len(blocks) = 3
    /\ Len(blocks[2].transactions) = 1
    /\ blocks[2].transactions[1].data = dSet(5)
    /\ Len(blocks[3].transactions) = 1
    /\ blocks[3].transactions[1].data = dSetN(1, 5)
    /\ DOMAIN state = {makeKey(ADDR_A, nSet, <<>>), makeKey(ADDR_A, nSetN, <<BigIntV(1)>>)}
    /\ state[makeKey(ADDR_A, nSet, <<>>)] = <<BigIntV(5)>>
    /\ state[makeKey(ADDR_A, nSetN, <<BigIntV(1)>>)] = <<BigIntV(5)>>

(***************************************************************************)
(* Properties of the event matching                                        *)
(***************************************************************************)
\* the text occurs in the name
Contains(name, text) ==
    \E i \in 1..(Len(name) - Len(text) + 1) : SubSeq(name, i, i + Len(text) - 1) = text

\* the name of an event matches the name of a function, letter case aside:
\* it equals it, ends with it or contains it, or the function is a setter
\* (set followed by a base name) and the event is named base, baseSet,
\* baseUpdated or baseChanged
NameMatches(eventName, fn) ==
    \/ eventName = fn
    \/ Len(eventName) >= Len(fn)
       /\ SubSeq(eventName, Len(eventName) - Len(fn) + 1, Len(eventName)) = fn
    \/ Contains(eventName, fn)
    \/ /\ Len(fn) > 3
       /\ SubSeq(fn, 1, 3) = nSet
       /\ eventName \in {SubSeq(fn, 4, Len(fn)) \o suffix :
                            suffix \in {<<>>, nSet, <<"u","p","d","a","t","e","d">>,
                                        <<"c","h","a","n","g","e","d">>}}

\* the events of the ABI whose name matches, in the order of the ABI
MatchingEvents(abi, fn) ==
    LET Keep(item) == item.type = "event"
                      /\ NameMatches(toLowerCase(item.name), toLowerCase(fn))
    IN SelectSeq(abi, Keep)

\* the logs are those of the events, one each and in their order
LogsOfEvents(logs, events) ==
    /\ Len(logs) = Len(events)
    /\ \A k \in 1..Len(events) : logs[k].topics[1] = TopicOf(events[k])

\* C30: findMatchingEvents hands back exactly the events of the ABI whose
\* name, letter case aside, equals the function name, ends with it,
\* contains it or, for a function named set plus a base name, is the base
\* name alone or followed by Set, Updated or Changed; the receipt of a
\* mined transaction has one log for each of these events, in the order of
\* the ABI, and none when no event matches
C30_MatchingEvents ==
    /\ read.op = "findMatchingEvents" =>
          read.output.events = MatchingEvents(read.input.abi, read.input.functionName)
    /\ \A i \in 1..Len(MinedTransactions) :
          LogsOfEvents(receipts[MinedTransactions[i].hash].logs,
                       MatchingEvents(registryGet(registry, MinedTransactions[i].to).abi,
                                      MinedTransactions[i].functionName))

\* setScore of a contract with the events Score and ScoreUpdated was mined
\* and has the two logs, Score first as in the ABI, and findMatchingEvents
\* gave the two events
C30_Witness ==
    /\ read.op = "findMatchingEvents"
    /\ read.input.functionName = <<"s","e","t","S","c","o","r","e">>
    /\ Len(read.output.events) = 2
    /\ read.output.events[1].name = <<"S","c","o","r","e">>
    /\ read.output.events[2].name = <<"S","c","o","r","e","U","p","d","a","t","e","d">>
    /\ Len(MinedTransactions) >= 1
    /\ Len(receipts[MinedTransactions[1].hash].logs) = 2
    /\ receipts[MinedTransactions[1].hash].logs[1].topics[1]
         = keccak256(<<"S","c","o","r","e","(","u","i","n","t","2","5","6",")">>)

(***************************************************************************)
(* Properties of the interval timer and of the life of a transaction       *)
(***************************************************************************)
\* the outcome of a mining round is one more block, holding what is pending
TickWouldMine(mined) ==
    /\ Len(mined.blocks) = Len(blocks) + 1
    /\ mined.blocks[Len(mined.blocks)].transactions = mempool
    /\ mined.mempool = <<>>

\* C31: in instant mode no timer is ever armed.  In interval mode the step
\* that arms the timer mines nothing (the first block waits for the first
\* period); whenever the timer is armed the round a tick runs mines a
\* block, also with nothing pending; and every block is mined by a tick of
\* the armed timer, which
\* appends exactly one block holding exactly the transactions pending at
\* that tick (none when nothing is pending) and leaves the timer armed.
C31_IntervalTimer ==
    /\ [](blockTime = 0 => ~miningInterval)
    /\ [](miningInterval => TickWouldMine(mineBlock(registry, blocks, mempool, state, receipts)))
    /\ [][(~miningInterval /\ miningInterval') =>
             /\ blockTime > 0
             /\ UNCHANGED <<blocks, mempool, state, receipts, txNonce>>]_vars
    /\ [][(blockTime > 0 /\ Mined) =>
             /\ miningInterval
             /\ miningInterval'
             /\ ~Submitted
             /\ Len(blocks') = Len(blocks) + 1
             /\ SubSeq(blocks', 1, Len(blocks)) = blocks
             /\ NewBlock.transactions = mempool
             /\ Len(NewBlock.receipts) = Len(mempool)
             /\ mempool' = <<>>]_vars

\* the armed timer ticked twice: the first tick found nothing pending and
\* mined an empty block, the second mined the two transactions submitted
\* in between
C31_Witness ==
    /\ blockTime > 0
    /\ miningInterval
    /\ Len(blocks) = 3
    /\ blocks[2].transactions = <<>>
    /\ Len(blocks[3].transactions) = 2
    /\ mempool = <<>>

\* the getter calls clients make after the setters above
ZeroGetters == {dGet, dGetN(1), dN(1), dSettings}

\* no mined transaction to the contract is a setter the getter call is
\* paired with
NeverWritten(to, g) ==
    \A i \in 1..Len(MinedTransactions) :
        toLowerCase(MinedTransactions[i].to) = toLowerCase(to)
            => g \notin GettersOf(MinedTransactions[i].data)

\* C32: with no overrides configured, once a mined setter has written zero
\* (and no later one wrote the same bucket) the store reports the bucket
\* found and every matching getter returns the encoded zero, which is not
\* the default; a getter none of whose setters was mined finds nothing and
\* returns the encoded default 1.
C32_StoredZeroNotAbsent ==
    ~overrides.defined =>
        /\ \A i \in LastWrites(MinedTransactions) :
              LET tx == MinedTransactions[i]
              IN WrittenValue(tx.data) = 0 =>
                    \A g \in GettersOf(tx.data) :
                        /\ call(tx.to, g) = Returned(encodedUint256(0))
                        /\ call(tx.to, g) # Returned(encodedUint256(1))
        /\ \A g \in ZeroGetters :
              NeverWritten(ADDR_A, g) => call(ADDR_A, g) = Returned(encodedUint256(1))

\* where the transaction of a nonce is: its positions in the mempool and in
\* the blocks of the ledger
PoolPositions(nonce) == {i \in 1..Len(mempool) : mempool[i].nonce = nonce}
BlockPositions(nonce) ==
    {p \in UNION {{<<b, i>> : i \in 1..Len(blocks[b].transactions)} : b \in 1..Len(blocks)} :
        blocks[p[1]].transactions[p[2]].nonce = nonce}

\* C33: every submitted transaction is at exactly one place, a position of
\* the mempool or a position of one mined block, and nothing else is at any
\* of these places; a transaction that leaves the mempool does so in a step
\* that mines a block, and it is in that block.
C33_NeverLostNorDuplicated ==
    /\ [](\A nonce \in 0..(txNonce - 1) :
             Cardinality(PoolPositions(nonce)) + Cardinality(BlockPositions(nonce)) = 1)
    /\ [](/\ \A i \in 1..Len(mempool) : mempool[i].nonce \in 0..(txNonce - 1)
          /\ \A tx \in {MinedTransactions[i] : i \in 1..Len(MinedTransactions)} :
                tx.nonce \in 0..(txNonce - 1))
    /\ [][\A i \in 1..Len(mempool) :
             (\A j \in 1..Len(mempool') : mempool'[j] # mempool[i]) =>
                 /\ Mined
                 /\ \E k \in 1..Len(NewBlock.transactions) :
                       NewBlock.transactions[k] = mempool[i]]_vars

\* interval mode: of two submitted transactions one was mined and the other
\* is pending
C33_Witness ==
    /\ blockTime > 0
    /\ txNonce = 2
    /\ Len(mempool) = 1
    /\ Len(MinedTransactions) = 1
    /\ mempool[1].nonce = 1

\* every transaction that was submitted: the pending and the mined ones
SubmittedTransactions ==
    {mempool[i] : i \in 1..Len(mempool)}
        \cup {MinedTransactions[i] : i \in 1..Len(MinedTransactions)}

\* C34: the nonce counter starts at 0, and a submission gives the
\* transaction the counter's value as nonce and the hash made of it and
\* raises the counter by exactly one, while no other step moves it: the
\* submitted transactions carry the nonces 0, 1, 2, ... and pairwise
\* different hashes, and every receipt of the receipts map is stored under
\* the hash of exactly one submitted transaction, whose hash it names.
C34_NonceAndHashUnique ==
    /\ txNonce = 0
    /\ [][/\ txNonce' \in {txNonce, txNonce + 1}
          /\ Submitted =>
                /\ sent'.hash = generateTxHash(txNonce)
                /\ \E tx \in {mempool'[i] : i \in 1..Len(mempool')}
                              \cup {NewBlock.transactions[i] :
                                        i \in 1..Len(NewBlock.transactions)} :
                      /\ tx.nonce = txNonce
                      /\ tx.hash = sent'.hash
                /\ \A tx \in SubmittedTransactions : tx.hash # sent'.hash]_vars
    /\ []({tx.nonce : tx \in SubmittedTransactions} = 0..(txNonce - 1))
    /\ [](\A t1, t2 \in SubmittedTransactions : t1.hash = t2.hash => t1 = t2)
    /\ [](\A hash \in DOMAIN receipts :
             /\ receipts[hash].transactionHash = hash
             /\ Cardinality({tx \in SubmittedTransactions : tx.hash = hash}) = 1)

\* two submissions, mined in one block or in two: two receipts are stored
\* under two hashes, made of the nonces 0 and 1
C34_Witness ==
    /\ txNonce = 2
    /\ Cardinality(DOMAIN receipts) = 2
    /\ DOMAIN receipts = {generateTxHash(0), generateTxHash(1)}
    /\ generateTxHash(0) # generateTxHash(1)

\* C35: in every block of the ledger there is one receipt per transaction,
\* and the receipt at 0-based position i names the hash of the block's i-th
\* transaction, the index i, the block's number and hash and the
\* cumulative gas 21000 * (i + 1); each of its logs names the same block
\* number, block hash, transaction hash and transaction index; and
\* getTransactionReceipt of the transaction's hash returns that receipt.
C35_ReceiptConsistency ==
    \A b \in 1..Len(blocks) :
        /\ Len(blocks[b].receipts) = Len(blocks[b].transactions)
        /\ \A p \in 1..Len(blocks[b].receipts) :
              LET R == blocks[b].receipts[p]
              IN /\ R.transactionIndex = p - 1
                 /\ R.transactionHash = blocks[b].transactions[p].hash
                 /\ R.blockNumber = blocks[b].number
                 /\ R.blockHash = blocks[b].hash
                 /\ R.cumulativeGasUsed = 21000 * p
                 /\ \A k \in 1..Len(R.logs) :
                       /\ R.logs[k].blockNumber = R.blockNumber
                       /\ R.logs[k].blockHash = R.blockHash
                       /\ R.logs[k].transactionHash = R.transactionHash
                       /\ R.logs[k].transactionIndex = R.transactionIndex
                 /\ getTransactionReceipt(blocks[b].transactions[p].hash) = R

\* the block of number 2 holds two transactions, and the receipt of the
\* second of them, at index 1, has logs
C35_Witness ==
    /\ Len(blocks) = 3
    /\ blocks[3].number = 2
    /\ Len(blocks[3].receipts) = 2
    /\ blocks[3].receipts[2].logs # <<>>
    /\ blocks[3].receipts[2].cumulativeGasUsed = 42000

(***************************************************************************)
(* Properties of the errors of call and of the registry                    *)
(***************************************************************************)
\* a revert override is configured for the function the calldata decodes to
RevertApplies(to, data) ==
    /\ overrides.defined
    /\ overrideGet(overrides, to,
                   decodeFunctionData(registryGet(registry, to).abi, data).functionName,
                   FALSE, <<>>).type = "revert"

\* C36: every call on the registered contract with calldata that decodes
\* returns a result, whatever the store holds and whatever value overrides
\* are configured, unless a revert override is configured for the function:
\* then, and only then, it raises an error, the RevertError.
C36_CallFailsOnlyByRevert ==
    \A d \in PairCalls :
        (/\ isKnownContract(ADDR_A)
         /\ decodeFunctionData(registryGet(registry, ADDR_A).abi, d).ok)
        => IF RevertApplies(ADDR_A, d)
           THEN call(ADDR_A, d).status = "RevertError"
           ELSE call(ADDR_A, d).status = "ok"

\* the pinned entries whose ABI loaded, and the files no such entry names
LoadedPins(input) ==
    {input.configContracts[i] : i \in {j \in 1..Len(input.configContracts) :
                                          input.configContracts[j].loaded}}
UnpinnedFiles(input) ==
    {input.abiFiles[i] : i \in {j \in 1..Len(input.abiFiles) :
                                   \A p \in LoadedPins(input) : p.name # input.abiFiles[j].name}}

\* C37: after populateRegistry returned, every pinned address whose ABI
\* loaded maps to the contract the config names for it, and every ABI file
\* that no pinned entry names is in the registry under an address that
\* holds it alone: the registry has one entry per loaded pin and one per
\* such file.
C37_NoAddressReplaced ==
    read.op = "populateRegistry" =>
        /\ \A p \in LoadedPins(read.input) :
              /\ registryGet(registry, p.address).name = p.name
              /\ registryGet(registry, p.address).abi = p.abi
        /\ \A f \in UnpinnedFiles(read.input) :
              \E i \in 1..Len(registry) :
                  /\ registry[i].name = f.name
                  /\ \A p \in LoadedPins(read.input) : registry[i].address # p.address
        /\ \A i, j \in 1..Len(registry) : registry[i].address = registry[j].address => i = j
        /\ Len(registry) = Cardinality(LoadedPins(read.input))
                             + Cardinality(UnpinnedFiles(read.input))

(***************************************************************************)
(* Properties of pending transactions                                      *)
(***************************************************************************)
\* the transactions of a sequence whose target the registry holds
RegisteredOnly(reg, txs) ==
    LET Keep(tx) == isRegistered(reg, tx.to)
    IN SelectSeq(txs, Keep)

\* C38: a reload of the registry leaves the mempool as it is, and the next
\* mining round mines all of it: every transaction of the round gets a
\* receipt with status 0x1, stored under its hash.  The round executes each
\* transaction against the registry of that moment: one whose target is
\* not registered then has no logs and leaves the store as the round
\* without it would (whatever was decoded when it was submitted), and a
\* set whose target is registered then writes and has logs (also when the
\* target was not registered when it was submitted).
C38_PendingAcrossReload ==
    [][/\ registry' # registry => mempool' = mempool
       /\ (Mined /\ ~Submitted) => NewBlock.transactions = mempool
       /\ Mined =>
             /\ \A i \in 1..Len(NewBlock.transactions) :
                   LET tx == NewBlock.transactions[i]
                   IN /\ receipts'[tx.hash] = NewBlock.receipts[i]
                      /\ NewBlock.receipts[i].status = "0x1"
                      /\ IF isRegistered(registry, tx.to)
                         THEN /\ NewBlock.receipts[i].logs # <<>>
                              /\ storeGet(state', tx.to, nSet, <<>>).found
                         ELSE NewBlock.receipts[i].logs = <<>>
             /\ state' = mineBlock(registry, blocks,
                                   RegisteredOnly(registry, NewBlock.transactions),
                                   state, receipts).state]_vars

\* a set sent to the contract Other while it was registered was mined after
\* a reload had dropped Other: its receipt has no logs and the store is
\* empty; the decoded name of the submission is still on the transaction
C38_Witness ==
    /\ Len(registry) = 1
    /\ DOMAIN state = {}
    /\ \E b \in 2..Len(blocks) : \E i \in 1..Len(blocks[b].transactions) :
          /\ toLowerCase(blocks[b].transactions[i].to) = ADDR_B
          /\ blocks[b].transactions[i].functionName = nSet
          /\ blocks[b].receipts[i].logs = <<>>
          /\ blocks[b].receipts[i].status = "0x1"
          /\ getTransactionReceipt(blocks[b].transactions[i].hash) = blocks[b].receipts[i]

\* C39: with the timer armed and never stopped and its ticks fair, every
\* transaction that is pending eventually has a receipt, however the
\* submissions, the ticks and the direct calls of mineBlock interleave; and
\* every mining round, a tick's or a direct one, takes all that is pending
\* and stores a receipt for each, so that a transaction is in the first
\* block mined after its submission.
C39_EventuallyMined ==
    /\ \A nonce \in 0..(MaxTx - 1) :
          isPending(generateTxHash(nonce)) ~> (generateTxHash(nonce) \in DOMAIN receipts)
    /\ [][Mined =>
             /\ Len(blocks') = Len(blocks) + 1
             /\ \A i \in 1..Len(mempool) :
                   /\ NewBlock.transactions[i] = mempool[i]
                   /\ mempool[i].hash \in DOMAIN receipts'
                   /\ receipts'[mempool[i].hash].blockNumber = NewBlock.number
                   /\ ~(\E j \in 1..Len(mempool') : mempool'[j] = mempool[i])]_vars

\* two transactions were mined in two rounds, the second after the ledger
\* had reached the length that holds back empty rounds, and nothing is
\* pending
C39_Witness ==
    /\ miningInterval
    /\ txNonce = 2
    /\ mempool = <<>>
    /\ Cardinality(DOMAIN receipts) = 2
    /\ Len(blocks) = MaxBlocks + 2
    /\ blocks[Len(blocks)].transactions # <<>>
    /\ receipts[generateTxHash(0)].blockNumber < receipts[generateTxHash(1)].blockNumber

====
